---- MODULE Spec2Model ----
(***************************************************************************)
(* A model of glee, a symbolic execution engine for Go SSA programs.       *)
(*                                                                         *)
(* The model follows the Go sources: the expression constructors           *)
(* (unnamed/part_000), the symbolic array with its linked update chain     *)
(* (unnamed/part_002), the execution state (execution_state.go) and the    *)
(* executor with its search strategies (executor.go).                      *)
(*                                                                         *)
(* Go pointers are modelled as references into stores: an *Array is an     *)
(* index into mem.arrays, an *ArrayUpdate an index into mem.updates (0 is  *)
(* nil), an *ExecutionState is its index in states.  Objects that the Go   *)
(* code mutates in place are therefore mutated in place here as well, and  *)
(* sharing between execution states is visible.                            *)
(***************************************************************************)
EXTENDS Integers, Sequences, FiniteSets, TLC

(***************************************************************************)
(* Bounds of the model.                                                    *)
(***************************************************************************)
\* Symbolic bytes range over 0..MaxByte when the solver looks for a model.
MaxByte == 3

(***************************************************************************)
(* Program constants.                                                      *)
(***************************************************************************)
WidthBool == 1
Width8 == 8
Width16 == 16
Width32 == 32
Width64 == 64
\* The executor is configured for a 64-bit little-endian target (amd64).
PointerWidth == 64
IsLittleEndian == TRUE

Max(S) == CHOOSE x \in S : \A y \in S : y <= x

RECURSIVE Pow2(_)
Pow2(n) == IF n = 0 THEN 1 ELSE 2 * Pow2(n - 1)

\* value & ((1 << width) - 1).  The model keeps every 32- and 64-bit value
\* inside 0..2^30, where the mask is the identity.
Mask(value, width) == IF width > 30 THEN value ELSE value % Pow2(width)

bitmask(width) == Pow2(width) - 1

(***************************************************************************)
(* Expressions (unnamed/part_000).                                         *)
(***************************************************************************)
NilExpr == [kind |-> "nil"]

ExprKinds == {"const", "notopt", "select", "concat", "extract", "not", "cast", "binary"}

IsExpr(b) == b.kind \in ExprKinds

NewConstantExpr(value, width) ==
    [kind |-> "const", Value |-> Mask(value, width), Width |-> width]

NewConstantExpr32(value) == NewConstantExpr(value, Width32)

NewConstantExpr64(value) == NewConstantExpr(value, Width64)

NewBoolConstantExpr(value) ==
    IF value THEN [kind |-> "const", Value |-> 1, Width |-> WidthBool]
    ELSE [kind |-> "const", Value |-> 0, Width |-> WidthBool]

NewSelectExpr(a, index) == [kind |-> "select", Array |-> a, Index |-> index]

IsCompare(op) ==
    op \in {"EQ", "NE", "ULT", "ULE", "UGT", "UGE", "SLT", "SLE", "SGT", "SGE"}

\* The numeric value of a BinaryOp (the iota constants), used for ordering.
OpNum(op) ==
    CASE op = "ADD" -> 1 [] op = "SUB" -> 2 [] op = "MUL" -> 3
      [] op = "UDIV" -> 4 [] op = "SDIV" -> 5 [] op = "UREM" -> 6
      [] op = "SREM" -> 7 [] op = "AND" -> 8 [] op = "OR" -> 9
      [] op = "XOR" -> 10 [] op = "SHL" -> 11 [] op = "LSHR" -> 12
      [] op = "ASHR" -> 13 [] op = "EQ" -> 16 [] op = "NE" -> 17
      [] op = "ULT" -> 18 [] op = "ULE" -> 19 [] op = "UGT" -> 20
      [] op = "UGE" -> 21 [] op = "SLT" -> 22 [] op = "SLE" -> 23
      [] op = "SGT" -> 24 [] op = "SGE" -> 25

RECURSIVE ExprWidth(_)
ExprWidth(expr) ==
    CASE expr.kind = "const" -> expr.Width
      [] expr.kind = "notopt" -> ExprWidth(expr.Src)
      [] expr.kind = "select" -> Width8
      [] expr.kind = "concat" -> ExprWidth(expr.MSB) + ExprWidth(expr.LSB)
      [] expr.kind = "extract" -> expr.Width
      [] expr.kind = "not" -> ExprWidth(expr.Expr)
      [] expr.kind = "cast" -> expr.Width
      [] expr.kind = "binary" ->
            IF IsCompare(expr.Op) THEN WidthBool ELSE ExprWidth(expr.LHS)

IsConstantExpr(expr) == expr.kind = "const"

IsTrue(e) == e.Width = WidthBool /\ e.Value # 0

IsFalse(e) == e.Width = WidthBool /\ e.Value = 0

IsAllOnes(e) == e.Width <= 30 /\ e.Value = bitmask(e.Width)

IsConstantTrue(expr) == IsConstantExpr(expr) /\ IsTrue(expr)

IsConstantFalse(expr) == IsConstantExpr(expr) /\ IsFalse(expr)

exprKind(expr) ==
    CASE expr.kind = "const" -> 1 [] expr.kind = "notopt" -> 2
      [] expr.kind = "select" -> 3 [] expr.kind = "concat" -> 4
      [] expr.kind = "extract" -> 5 [] expr.kind = "not" -> 6
      [] expr.kind = "cast" -> 7 [] expr.kind = "binary" -> 8

Cmp(x, y) == IF x < y THEN -1 ELSE IF x > y THEN 1 ELSE 0

\* Bitwise operations on naturals of a given width.
RECURSIVE BitAnd(_, _, _)
BitAnd(a, b, w) ==
    IF w = 0 THEN 0
    ELSE (IF a % 2 = 1 /\ b % 2 = 1 THEN 1 ELSE 0) + 2 * BitAnd(a \div 2, b \div 2, w - 1)

RECURSIVE BitOr(_, _, _)
BitOr(a, b, w) ==
    IF w = 0 THEN 0
    ELSE (IF a % 2 = 1 \/ b % 2 = 1 THEN 1 ELSE 0) + 2 * BitOr(a \div 2, b \div 2, w - 1)

RECURSIVE BitXor(_, _, _)
BitXor(a, b, w) ==
    IF w = 0 THEN 0
    ELSE (IF a % 2 # b % 2 THEN 1 ELSE 0) + 2 * BitXor(a \div 2, b \div 2, w - 1)

\* Methods of ConstantExpr.
ConstAdd(e, other) == NewConstantExpr(e.Value + other.Value, e.Width)

ConstSub(e, other) == NewConstantExpr(e.Value - other.Value, e.Width)

ConstMul(e, other) == NewConstantExpr(e.Value * other.Value, e.Width)

ConstAnd(e, other) == NewConstantExpr(BitAnd(e.Value, other.Value, 31), e.Width)

ConstOr(e, other) == NewConstantExpr(BitOr(e.Value, other.Value, 31), e.Width)

ConstXor(e, other) == NewConstantExpr(BitXor(e.Value, other.Value, 31), e.Width)

ConstEq(e, other) ==
    IF e.Value = other.Value THEN NewConstantExpr(1, WidthBool)
    ELSE NewConstantExpr(0, WidthBool)

ConstNot(e) == NewConstantExpr(bitmask(e.Width) - e.Value, e.Width)

ConstZExt(e, width) ==
    IF e.Width = width THEN e
    ELSE IF width = WidthBool THEN NewBoolConstantExpr(e.Value # 0)
    ELSE NewConstantExpr(e.Value, width)

\* uint64(int64(e.Value)>>offset) & bitmask(e.Width), masked to width.  A
\* value below 2^30 shifted right by more than 30 bits is 0.
ConstExtract(e, offset, width) ==
    NewConstantExpr(Mask(IF offset > 30 THEN 0 ELSE e.Value \div Pow2(offset), e.Width),
                    width)

\* (e.Value << lsb.Width) | lsb.Value; 0 shifted by any number of bits is 0.
ConstConcat(e, lsb) ==
    NewConstantExpr(IF e.Value = 0 THEN lsb.Value
                    ELSE e.Value * Pow2(lsb.Width) + lsb.Value,
                    e.Width + lsb.Width)

\* SExt: truncate to the narrower of the two widths as a signed integer,
\* sign-extend, and mask to the new width (the nested intN conversions).
\* Only widths 8, 16, 32 and 64 are accepted by the code.
ConstSExt(e, width) ==
    IF e.Width = width THEN e
    ELSE LET m == IF width < e.Width THEN width ELSE e.Width
             v == Mask(e.Value, m)
             sv == IF m <= 30 /\ v >= Pow2(m - 1) THEN v - Pow2(m) ELSE v
         IN  NewConstantExpr(sv, width)

\* A constant's value as the signed integer intN(e.Value).
SignedValue(e) ==
    IF e.Width <= 30 /\ e.Value >= Pow2(e.Width - 1) THEN e.Value - Pow2(e.Width)
    ELSE e.Value

\* The widths that UDiv, SDiv, URem, SRem, Shl, LShr, AShr, Ult, Ule, Slt and
\* Sle accept: on any other width they panic ("non-standard width").
IsStandardWidth(width) == width \in {Width8, Width16, Width32, Width64}

\* Go's integer division and remainder truncate toward zero.
QuoTrunc(x, y) ==
    IF (x < 0) = (y < 0) THEN (IF x < 0 THEN (0 - x) \div (0 - y) ELSE x \div y)
    ELSE 0 - ((IF x < 0 THEN 0 - x ELSE x) \div (IF y < 0 THEN 0 - y ELSE y))

\* UDiv, SDiv, URem and SRem of ConstantExpr.  A division by zero is a Go
\* run-time panic and a non-standard width a panic of the method: the
\* result is nil then.
ConstDivRem(op, e, other) ==
    IF ~IsStandardWidth(e.Width) \/ other.Value = 0 THEN NilExpr
    ELSE CASE op = "UDIV" -> NewConstantExpr(e.Value \div other.Value, e.Width)
           [] op = "UREM" -> NewConstantExpr(e.Value % other.Value, e.Width)
           [] op = "SDIV" ->
                NewConstantExpr(QuoTrunc(SignedValue(e), SignedValue(other)), e.Width)
           [] op = "SREM" ->
                NewConstantExpr(SignedValue(e) - SignedValue(other)
                                   * QuoTrunc(SignedValue(e), SignedValue(other)),
                                e.Width)

\* Shl, LShr and AShr of ConstantExpr: a shift by the width or more yields
\* 0, or the sign for AShr.
ConstShift(op, e, other) ==
    IF ~IsStandardWidth(e.Width) THEN NilExpr
    ELSE IF other.Value >= e.Width \/ other.Value > 30
    THEN (IF op = "ASHR" /\ SignedValue(e) < 0
          THEN NewConstantExpr(bitmask(e.Width), e.Width)
          ELSE NewConstantExpr(0, e.Width))
    ELSE CASE op = "SHL" -> NewConstantExpr(e.Value * Pow2(other.Value), e.Width)
           [] op = "LSHR" -> NewConstantExpr(e.Value \div Pow2(other.Value), e.Width)
           [] op = "ASHR" -> NewConstantExpr(SignedValue(e) \div Pow2(other.Value), e.Width)

\* Ult, Ule, Slt and Sle of ConstantExpr.
ConstCompare(op, e, other) ==
    IF ~IsStandardWidth(e.Width) THEN NilExpr
    ELSE CASE op = "ULT" -> NewBoolConstantExpr(e.Value < other.Value)
           [] op = "ULE" -> NewBoolConstantExpr(e.Value <= other.Value)
           [] op = "SLT" -> NewBoolConstantExpr(SignedValue(e) < SignedValue(other))
           [] op = "SLE" -> NewBoolConstantExpr(SignedValue(e) <= SignedValue(other))

(***************************************************************************)
(* The canonical comparison.  mem is the store of arrays and update nodes  *)
(* that SelectExpr.Array points into.                                      *)
(***************************************************************************)
RECURSIVE CompareExpr(_, _, _)
RECURSIVE CompareArray(_, _, _)
RECURSIVE CompareArrayUpdate(_, _, _)

CompareArrayUpdate(mem, a, b) ==
    IF a = 0 /\ b # 0 THEN -1
    ELSE IF a # 0 /\ b = 0 THEN 1
    ELSE IF a = 0 /\ b = 0 THEN 0
    ELSE LET ua == mem.updates[a]
             ub == mem.updates[b]
             ci == CompareExpr(mem, ua.Index, ub.Index)
             cv == CompareExpr(mem, ua.Value, ub.Value)
         IN  IF ci # 0 THEN ci
             ELSE IF cv # 0 THEN cv
             ELSE CompareArrayUpdate(mem, ua.Next, ub.Next)

CompareArray(mem, a, b) ==
    IF a = 0 /\ b # 0 THEN -1
    ELSE IF a # 0 /\ b = 0 THEN 1
    ELSE IF a = 0 /\ b = 0 THEN 0
    ELSE LET x == mem.arrays[a]
             y == mem.arrays[b]
         IN  IF x.ID # y.ID THEN Cmp(x.ID, y.ID)
             ELSE IF x.Size # y.Size THEN Cmp(x.Size, y.Size)
             ELSE CompareArrayUpdate(mem, x.Updates, y.Updates)

CompareExpr(mem, a, b) ==
    IF a.kind = "nil" /\ b.kind # "nil" THEN -1
    ELSE IF a.kind # "nil" /\ b.kind = "nil" THEN 1
    ELSE IF a.kind = "nil" /\ b.kind = "nil" THEN 0
    ELSE IF exprKind(a) # exprKind(b) THEN Cmp(exprKind(a), exprKind(b))
    ELSE CASE a.kind = "const" ->
                IF a.Width # b.Width THEN Cmp(a.Width, b.Width)
                ELSE Cmp(a.Value, b.Value)
           [] a.kind = "notopt" -> CompareExpr(mem, a.Src, b.Src)
           [] a.kind = "select" ->
                LET c == CompareExpr(mem, a.Index, b.Index)
                IN  IF c # 0 THEN c ELSE CompareArray(mem, a.Array, b.Array)
           [] a.kind = "concat" ->
                LET c == CompareExpr(mem, a.MSB, b.MSB)
                IN  IF c # 0 THEN c ELSE CompareExpr(mem, a.LSB, b.LSB)
           [] a.kind = "extract" ->
                IF a.Offset # b.Offset THEN Cmp(a.Offset, b.Offset)
                ELSE IF a.Width # b.Width THEN Cmp(a.Width, b.Width)
                ELSE CompareExpr(mem, a.Expr, b.Expr)
           [] a.kind = "not" -> CompareExpr(mem, a.Expr, b.Expr)
           [] a.kind = "cast" ->
                IF a.Signed /\ ~b.Signed THEN -1
                ELSE IF ~a.Signed /\ b.Signed THEN 1
                ELSE IF a.Width # b.Width THEN Cmp(a.Width, b.Width)
                ELSE CompareExpr(mem, a.Src, b.Src)
           [] a.kind = "binary" ->
                IF a.Op # b.Op THEN Cmp(OpNum(a.Op), OpNum(b.Op))
                ELSE LET c == CompareExpr(mem, a.LHS, b.LHS)
                     IN  IF c # 0 THEN c ELSE CompareExpr(mem, a.RHS, b.RHS)

(***************************************************************************)
(* The simplifying constructors.                                           *)
(***************************************************************************)
NewNotExpr(expr) ==
    IF IsConstantExpr(expr) THEN ConstNot(expr)
    ELSE [kind |-> "not", Expr |-> expr]

RECURSIVE NewExtractExpr(_, _, _)
RECURSIVE NewConcatExpr(_, _)

\* msb.Expr == lsb.Expr compares Go pointers; expressions are values here, so
\* the comparison is structural.
NewConcatExpr(msb, lsb) ==
    IF IsConstantExpr(msb) /\ IsConstantExpr(lsb) THEN ConstConcat(msb, lsb)
    ELSE IF /\ msb.kind = "extract"
            /\ lsb.kind = "extract"
            /\ msb.Expr = lsb.Expr
            /\ lsb.Offset + lsb.Width = msb.Offset
         THEN NewExtractExpr(msb.Expr, lsb.Offset, msb.Width + lsb.Width)
    ELSE [kind |-> "concat", MSB |-> msb, LSB |-> lsb]

NewExtractExpr(expr, offset, width) ==
    LET kw == ExprWidth(expr)
    IN  IF width = kw THEN expr
        ELSE IF IsConstantExpr(expr) THEN ConstExtract(expr, offset, width)
        ELSE IF expr.kind = "concat"
             THEN IF offset >= ExprWidth(expr.LSB)
                  THEN NewExtractExpr(expr.MSB, offset - ExprWidth(expr.LSB), width)
                  ELSE IF offset + width <= ExprWidth(expr.LSB)
                  THEN NewExtractExpr(expr.LSB, offset, width)
                  ELSE NewConcatExpr(
                         NewExtractExpr(expr.MSB, 0, width - ExprWidth(expr.LSB) + offset),
                         NewExtractExpr(expr.LSB, offset, ExprWidth(expr.MSB) - offset))
        ELSE [kind |-> "extract", Expr |-> expr, Offset |-> offset, Width |-> width]

newZExtExpr(src, w) ==
    LET sw == ExprWidth(src)
    IN  IF w = sw THEN src
        ELSE IF w < sw THEN NewExtractExpr(src, 0, w)
        ELSE IF IsConstantExpr(src) THEN ConstZExt(src, w)
        ELSE [kind |-> "cast", Src |-> src, Width |-> w, Signed |-> FALSE]

newSExtExpr(src, w) ==
    LET sw == ExprWidth(src)
    IN  IF w = sw THEN src
        ELSE IF w < sw THEN NewExtractExpr(src, 0, w)
        ELSE IF IsConstantExpr(src) THEN ConstSExt(src, w)
        ELSE [kind |-> "cast", Src |-> src, Width |-> w, Signed |-> TRUE]

NewCastExpr(src, width, signed) ==
    IF signed THEN newSExtExpr(src, width) ELSE newZExtExpr(src, width)

BinaryExpr(op, lhs, rhs) == [kind |-> "binary", Op |-> op, LHS |-> lhs, RHS |-> rhs]

IsBinaryOp(e, op) == e.kind = "binary" /\ e.Op = op

RECURSIVE NewBinaryExpr(_, _, _, _)
RECURSIVE newAddExpr(_, _, _)
RECURSIVE newSubExpr(_, _, _)
RECURSIVE newEqExpr(_, _, _)

NewIsZeroExpr(mem, other) ==
    NewBinaryExpr(mem, "EQ", other, NewConstantExpr(0, ExprWidth(other)))

newAddExpr(mem, lhs0, rhs0) ==
    LET swap == ~IsConstantExpr(lhs0) /\ IsConstantExpr(rhs0)
        lhs == IF swap THEN rhs0 ELSE lhs0
        rhs == IF swap THEN lhs0 ELSE rhs0
    IN  IF ExprWidth(lhs) = WidthBool THEN NewBinaryExpr(mem, "XOR", lhs, rhs)
        ELSE IF IsConstantExpr(lhs) /\ lhs.Value = 0 THEN rhs
        ELSE IF IsConstantExpr(lhs) /\ IsConstantExpr(rhs) THEN ConstAdd(lhs, rhs)
        ELSE IF IsConstantExpr(lhs) /\ IsBinaryOp(rhs, "ADD") /\ IsConstantExpr(rhs.LHS)
        THEN NewBinaryExpr(mem, "ADD", NewBinaryExpr(mem, "ADD", lhs, rhs.LHS), rhs.RHS)
        ELSE IF IsConstantExpr(lhs) /\ IsBinaryOp(rhs, "SUB") /\ IsConstantExpr(rhs.LHS)
        THEN NewBinaryExpr(mem, "SUB", NewBinaryExpr(mem, "ADD", lhs, rhs.LHS), rhs.RHS)
        ELSE IF IsBinaryOp(lhs, "ADD") /\ IsConstantExpr(lhs.LHS)
        THEN NewBinaryExpr(mem, "ADD", lhs.LHS, NewBinaryExpr(mem, "ADD", lhs.RHS, rhs))
        ELSE IF IsBinaryOp(lhs, "SUB") /\ IsConstantExpr(lhs.LHS)
        THEN NewBinaryExpr(mem, "ADD", lhs.LHS, NewBinaryExpr(mem, "SUB", rhs, lhs.RHS))
        ELSE IF IsBinaryOp(rhs, "ADD") /\ IsConstantExpr(rhs.LHS)
        THEN NewBinaryExpr(mem, "ADD", rhs.LHS, NewBinaryExpr(mem, "ADD", lhs, rhs.RHS))
        ELSE IF IsBinaryOp(rhs, "SUB") /\ IsConstantExpr(rhs.LHS)
        THEN NewBinaryExpr(mem, "ADD", rhs.LHS, NewBinaryExpr(mem, "SUB", lhs, rhs.RHS))
        ELSE BinaryExpr("ADD", lhs, rhs)

newSubExpr(mem, lhs, rhs) ==
    IF CompareExpr(mem, lhs, rhs) = 0 THEN NewConstantExpr(0, ExprWidth(lhs))
    ELSE IF IsConstantExpr(lhs) /\ IsConstantExpr(rhs) THEN ConstSub(lhs, rhs)
    ELSE IF ExprWidth(lhs) = WidthBool THEN NewBinaryExpr(mem, "XOR", lhs, rhs)
    ELSE IF IsConstantExpr(rhs) /\ ~IsConstantExpr(lhs)
    THEN NewBinaryExpr(mem, "ADD", ConstSub(NewConstantExpr(0, ExprWidth(rhs)), rhs), lhs)
    ELSE IF IsConstantExpr(lhs) /\ IsBinaryOp(rhs, "ADD") /\ IsConstantExpr(rhs.LHS)
    THEN NewBinaryExpr(mem, "SUB", NewBinaryExpr(mem, "SUB", lhs, rhs.LHS), rhs.RHS)
    ELSE IF IsConstantExpr(lhs) /\ IsBinaryOp(rhs, "SUB") /\ IsConstantExpr(rhs.LHS)
    THEN NewBinaryExpr(mem, "ADD", NewBinaryExpr(mem, "SUB", lhs, rhs.LHS), rhs.RHS)
    ELSE IF IsBinaryOp(lhs, "ADD") /\ IsConstantExpr(lhs.LHS)
    THEN NewBinaryExpr(mem, "ADD", lhs.LHS, NewBinaryExpr(mem, "SUB", lhs.RHS, rhs))
    ELSE IF IsBinaryOp(lhs, "SUB") /\ IsConstantExpr(lhs.LHS)
    THEN NewBinaryExpr(mem, "SUB", lhs.LHS, NewBinaryExpr(mem, "ADD", lhs.RHS, rhs))
    ELSE IF IsBinaryOp(rhs, "ADD") /\ IsConstantExpr(rhs.LHS)
    THEN NewBinaryExpr(mem, "SUB", NewBinaryExpr(mem, "SUB", lhs, rhs.RHS), rhs.LHS)
    ELSE IF IsBinaryOp(rhs, "SUB") /\ IsConstantExpr(rhs.LHS)
    THEN NewBinaryExpr(mem, "SUB", NewBinaryExpr(mem, "ADD", lhs, rhs.RHS), rhs.LHS)
    ELSE BinaryExpr("SUB", lhs, rhs)

newMulExpr(mem, lhs0, rhs0) ==
    LET swap == IsConstantExpr(rhs0) /\ ~IsConstantExpr(lhs0)
        lhs == IF swap THEN rhs0 ELSE lhs0
        rhs == IF swap THEN lhs0 ELSE rhs0
    IN  IF IsConstantExpr(lhs) /\ IsConstantExpr(rhs) THEN ConstMul(lhs, rhs)
        ELSE IF ExprWidth(lhs) = WidthBool THEN NewBinaryExpr(mem, "AND", lhs, rhs)
        ELSE IF IsConstantExpr(lhs) /\ lhs.Value = 1 THEN rhs
        ELSE IF IsConstantExpr(lhs) /\ lhs.Value = 0 THEN lhs
        ELSE BinaryExpr("MUL", lhs, rhs)

newAndExpr(lhs0, rhs0) ==
    IF IsConstantExpr(lhs0) /\ IsConstantExpr(rhs0) THEN ConstAnd(lhs0, rhs0)
    ELSE LET swap == IsConstantExpr(lhs0) /\ ~IsConstantExpr(rhs0)
             lhs == IF swap THEN rhs0 ELSE lhs0
             rhs == IF swap THEN lhs0 ELSE rhs0
         IN  IF IsConstantExpr(rhs) /\ IsAllOnes(rhs) THEN lhs
             ELSE IF IsConstantExpr(rhs) /\ rhs.Value = 0 THEN rhs
             ELSE BinaryExpr("AND", lhs, rhs)

newOrExpr(lhs0, rhs0) ==
    IF IsConstantExpr(lhs0) /\ IsConstantExpr(rhs0) THEN ConstOr(lhs0, rhs0)
    ELSE LET swap == IsConstantExpr(lhs0) /\ ~IsConstantExpr(rhs0)
             lhs == IF swap THEN rhs0 ELSE lhs0
             rhs == IF swap THEN lhs0 ELSE rhs0
         IN  IF IsConstantExpr(rhs) /\ IsAllOnes(rhs) THEN rhs
             ELSE IF IsConstantExpr(rhs) /\ rhs.Value = 0 THEN lhs
             ELSE BinaryExpr("OR", lhs, rhs)

newXorExpr(lhs0, rhs0) ==
    LET swap == ~IsConstantExpr(lhs0) /\ IsConstantExpr(rhs0)
        lhs == IF swap THEN rhs0 ELSE lhs0
        rhs == IF swap THEN lhs0 ELSE rhs0
    IN  IF IsConstantExpr(lhs) /\ lhs.Value = 0 THEN rhs
        ELSE IF IsConstantExpr(lhs) /\ IsConstantExpr(rhs) THEN ConstXor(lhs, rhs)
        ELSE BinaryExpr("XOR", lhs, rhs)

newEqExpr(mem, lhs0, rhs0) ==
    LET swap == ~IsConstantExpr(lhs0) /\ IsConstantExpr(rhs0)
        lhs == IF swap THEN rhs0 ELSE lhs0
        rhs == IF swap THEN lhs0 ELSE rhs0
        width == ExprWidth(lhs)
        fallthrough ==
            IF CompareExpr(mem, lhs, rhs) = 0 THEN NewConstantExpr(1, WidthBool)
            ELSE BinaryExpr("EQ", lhs, rhs)
    IN  IF ~IsConstantExpr(lhs) THEN fallthrough
        ELSE IF IsConstantExpr(rhs) THEN ConstEq(lhs, rhs)
        ELSE IF IsBinaryOp(rhs, "EQ") /\ width = WidthBool /\ IsTrue(lhs) THEN rhs
        ELSE IF /\ IsBinaryOp(rhs, "EQ") /\ width = WidthBool
                /\ IsConstantFalse(lhs) /\ IsConstantFalse(rhs.LHS)
        THEN rhs.RHS
        ELSE IF IsBinaryOp(rhs, "OR") /\ width = WidthBool /\ IsTrue(lhs) THEN rhs
        ELSE IF IsBinaryOp(rhs, "OR") /\ width = WidthBool /\ ExprWidth(rhs.LHS) = WidthBool
        THEN NewBinaryExpr(mem, "AND", NewIsZeroExpr(mem, rhs.LHS), NewIsZeroExpr(mem, rhs.RHS))
        ELSE IF IsBinaryOp(rhs, "ADD") /\ IsConstantExpr(rhs.LHS)
        THEN NewBinaryExpr(mem, "EQ", NewBinaryExpr(mem, "SUB", lhs, rhs.LHS), rhs.RHS)
        ELSE IF IsBinaryOp(rhs, "SUB") /\ IsConstantExpr(rhs.LHS)
        THEN NewBinaryExpr(mem, "EQ", NewBinaryExpr(mem, "SUB", rhs.LHS, lhs), rhs.RHS)
        ELSE IF rhs.kind = "cast"
        THEN LET trunc == ConstZExt(lhs, ExprWidth(rhs.Src))
                 back == IF rhs.Signed THEN ConstSExt(trunc, width)
                         ELSE ConstZExt(trunc, width)
             IN  IF CompareExpr(mem, lhs, back) = 0
                 THEN NewBinaryExpr(mem, "EQ", rhs.Src, trunc)
                 ELSE NewConstantExpr(0, WidthBool)
        ELSE fallthrough

newDivExpr(op, lhs, rhs) ==
    IF IsConstantExpr(lhs) /\ IsConstantExpr(rhs) THEN ConstDivRem(op, lhs, rhs)
    ELSE IF ExprWidth(lhs) = WidthBool THEN lhs
    ELSE BinaryExpr(op, lhs, rhs)

newRemExpr(op, lhs, rhs) ==
    IF IsConstantExpr(lhs) /\ IsConstantExpr(rhs) THEN ConstDivRem(op, lhs, rhs)
    ELSE IF ExprWidth(lhs) = WidthBool THEN NewConstantExpr(0, WidthBool)
    ELSE BinaryExpr(op, lhs, rhs)

newShlExpr(mem, lhs, rhs) ==
    IF IsConstantExpr(lhs) /\ IsConstantExpr(rhs) THEN ConstShift("SHL", lhs, rhs)
    ELSE IF ExprWidth(lhs) = WidthBool
    THEN NewBinaryExpr(mem, "AND", lhs, NewIsZeroExpr(mem, rhs))
    ELSE BinaryExpr("SHL", lhs, rhs)

newLShrExpr(mem, lhs, rhs) ==
    IF IsConstantExpr(lhs) /\ IsConstantExpr(rhs) THEN ConstShift("LSHR", lhs, rhs)
    ELSE IF ExprWidth(lhs) = WidthBool
    THEN NewBinaryExpr(mem, "AND", lhs, NewIsZeroExpr(mem, rhs))
    ELSE BinaryExpr("LSHR", lhs, rhs)

newAShrExpr(lhs, rhs) ==
    IF IsConstantExpr(lhs) /\ IsConstantExpr(rhs) THEN ConstShift("ASHR", lhs, rhs)
    ELSE IF ExprWidth(lhs) = WidthBool THEN lhs
    ELSE BinaryExpr("ASHR", lhs, rhs)

newUltExpr(mem, lhs, rhs) ==
    IF IsConstantExpr(lhs) /\ IsConstantExpr(rhs) THEN ConstCompare("ULT", lhs, rhs)
    ELSE IF ExprWidth(lhs) = WidthBool
    THEN NewBinaryExpr(mem, "AND", NewIsZeroExpr(mem, lhs), rhs)
    ELSE BinaryExpr("ULT", lhs, rhs)

newUleExpr(mem, lhs, rhs) ==
    IF IsConstantExpr(lhs) /\ IsConstantExpr(rhs) THEN ConstCompare("ULE", lhs, rhs)
    ELSE IF ExprWidth(lhs) = WidthBool
    THEN NewBinaryExpr(mem, "OR", NewIsZeroExpr(mem, lhs), rhs)
    ELSE BinaryExpr("ULE", lhs, rhs)

newSltExpr(mem, lhs, rhs) ==
    IF IsConstantExpr(lhs) /\ IsConstantExpr(rhs) THEN ConstCompare("SLT", lhs, rhs)
    ELSE IF ExprWidth(lhs) = WidthBool
    THEN NewBinaryExpr(mem, "AND", lhs, NewIsZeroExpr(mem, rhs))
    ELSE BinaryExpr("SLT", lhs, rhs)

newSleExpr(mem, lhs, rhs) ==
    IF IsConstantExpr(lhs) /\ IsConstantExpr(rhs) THEN ConstCompare("SLE", lhs, rhs)
    ELSE IF ExprWidth(lhs) = WidthBool
    THEN NewBinaryExpr(mem, "OR", lhs, NewIsZeroExpr(mem, rhs))
    ELSE BinaryExpr("SLE", lhs, rhs)

\* A comparison that is built with its operands as they are given.
newCompareUnreversed(mem, op, lhs, rhs) == BinaryExpr(op, lhs, rhs)

\* The reversed comparisons: UGT, UGE, SGT and SGE are built as ULT, ULE, SLT
\* and SLE of the operands in the other order.
newReversedExpr(mem, op, lhs, rhs) ==
    CASE op = "UGT" -> newUltExpr(mem, rhs, lhs)
      [] op = "UGE" -> newUleExpr(mem, rhs, lhs)
      [] op = "SGT" -> newSltExpr(mem, rhs, lhs)
      [] op = "SGE" -> newSleExpr(mem, rhs, lhs)

NewBinaryExpr(mem, op, lhs, rhs) ==
    CASE op = "ADD" -> newAddExpr(mem, lhs, rhs)
      [] op = "SUB" -> newSubExpr(mem, lhs, rhs)
      [] op = "MUL" -> newMulExpr(mem, lhs, rhs)
      [] op \in {"UDIV", "SDIV"} -> newDivExpr(op, lhs, rhs)
      [] op \in {"UREM", "SREM"} -> newRemExpr(op, lhs, rhs)
      [] op = "AND" -> newAndExpr(lhs, rhs)
      [] op = "OR" -> newOrExpr(lhs, rhs)
      [] op = "XOR" -> newXorExpr(lhs, rhs)
      [] op = "SHL" -> newShlExpr(mem, lhs, rhs)
      [] op = "LSHR" -> newLShrExpr(mem, lhs, rhs)
      [] op = "ASHR" -> newAShrExpr(lhs, rhs)
      [] op = "EQ" -> newEqExpr(mem, lhs, rhs)
      [] op = "NE" ->
            NewBinaryExpr(mem, "EQ", NewConstantExpr(0, WidthBool),
                          NewBinaryExpr(mem, "EQ", lhs, rhs))
      [] op = "ULT" -> newUltExpr(mem, lhs, rhs)
      [] op = "ULE" -> newUleExpr(mem, lhs, rhs)
      [] op = "SLT" -> newSltExpr(mem, lhs, rhs)
      [] op = "SLE" -> newSleExpr(mem, lhs, rhs)
      [] op \in {"UGT", "UGE", "SGT", "SGE"} -> newReversedExpr(mem, op, lhs, rhs)

\* NewBinaryExpr panics: a method of ConstantExpr rejects the width of two
\* constant operands or divides by zero.
NewBinaryExprPanics(op, lhs, rhs) ==
    /\ IsConstantExpr(lhs)
    /\ IsConstantExpr(rhs)
    /\ \/ /\ op \in {"UDIV", "SDIV", "UREM", "SREM", "SHL", "LSHR", "ASHR", "ULT",
                     "ULE", "SLT", "SLE", "UGT", "UGE", "SGT", "SGE"}
          /\ ~IsStandardWidth(lhs.Width)
       \/ op \in {"UDIV", "SDIV", "UREM", "SREM"} /\ rhs.Value = 0

(***************************************************************************)
(* Arrays (unnamed/part_002).  An array is a record [ID, Size, Updates];   *)
(* Updates refers to the newest node [Index, Value, Next] of its chain.    *)
(***************************************************************************)
EmptyMem == [arrays |-> << >>, updates |-> << >>]

\* &Array{ID: id, Size: size}: a new object in the store.
NewArray(mem, id, size) ==
    [mem |-> [mem EXCEPT !.arrays = Append(@, [ID |-> id, Size |-> size, Updates |-> 0])],
     ref |-> Len(mem.arrays) + 1]

\* Array.Clone: a new Array object that points at the same chain.
ArrayClone(mem, a) ==
    [mem |-> [mem EXCEPT !.arrays = Append(@, mem.arrays[a])],
     ref |-> Len(mem.arrays) + 1]

NewArrayUpdate(mem, index, value, next) ==
    [mem |-> [mem EXCEPT !.updates =
                 Append(@, [Index |-> newZExtExpr(index, Width64),
                            Value |-> newZExtExpr(value, Width8),
                            Next |-> next])],
     ref |-> Len(mem.updates) + 1]

\* A storeByte that keeps every older update.
storeByteKeep(mem, index, prev, upd) == mem

\* The loop of storeByte that unlinks older updates of the same constant
\* index: prev.Next = upd.Next is an assignment to the node prev itself.
RECURSIVE storeByteRemove(_, _, _, _)
storeByteRemove(mem, index, prev, upd) ==
    IF upd = 0 THEN mem
    ELSE IF ~IsConstantExpr(mem.updates[upd].Index) THEN mem
    ELSE IF index.Value = mem.updates[upd].Index.Value
    THEN storeByteRemove([mem EXCEPT !.updates[prev].Next = mem.updates[upd].Next],
                         index, prev, mem.updates[upd].Next)
    ELSE storeByteRemove(mem, index, upd, mem.updates[upd].Next)

\* The assertions of storeByte: a 64-bit index, a constant index in bounds.
storeByteValid(mem, a, index) ==
    /\ ExprWidth(index) = Width64
    /\ IsConstantExpr(index) => index.Value < mem.arrays[a].Size

\* Array.storeByte mutates the array a in place.
storeByte(mem, a, index, value) ==
    LET n == NewArrayUpdate(mem, index, value, mem.arrays[a].Updates)
        linked == [n.mem EXCEPT !.arrays[a].Updates = n.ref]
    IN  IF IsConstantExpr(index)
        THEN storeByteRemove(linked, index, n.ref, linked.updates[n.ref].Next)
        ELSE linked

RECURSIVE zeroFrom(_, _, _)
zeroFrom(mem, a, i) ==
    IF i >= mem.arrays[a].Size THEN mem
    ELSE zeroFrom(storeByte(mem, a, NewConstantExpr64(i), NewConstantExpr(0, Width8)), a, i + 1)

zero(mem, a) == zeroFrom(mem, a, 0)

RECURSIVE selectByteFrom(_, _, _, _)
selectByteFrom(mem, a, index, upd) ==
    IF upd = 0 THEN NewSelectExpr(a, index)
    ELSE LET cond == NewBinaryExpr(mem, "EQ", index, mem.updates[upd].Index)
         IN  IF ~IsConstantExpr(cond) THEN NewSelectExpr(a, index)
             ELSE IF IsTrue(cond) THEN mem.updates[upd].Value
             ELSE selectByteFrom(mem, a, index, mem.updates[upd].Next)

\* A selectByte that never looks at the chain.
selectByteBlind(mem, a, index) == NewSelectExpr(a, index)

selectByte(mem, a, index) == selectByteFrom(mem, a, index, mem.arrays[a].Updates)

RECURSIVE SelectBytes(_, _, _, _, _, _, _)
SelectBytes(mem, a, offset, n, isLittleEndian, i, result) ==
    IF i = n THEN result
    ELSE LET byteOffset == IF isLittleEndian THEN i ELSE n - i - 1
             value == selectByte(mem, a,
                         NewBinaryExpr(mem, "ADD", offset, NewConstantExpr64(byteOffset)))
         IN  SelectBytes(mem, a, offset, n, isLittleEndian, i + 1,
                         IF i = 0 THEN value ELSE NewConcatExpr(value, result))

ArraySelect(mem, a, offset0, width, isLittleEndian) ==
    LET offset == newZExtExpr(offset0, Width64)
    IN  IF width = WidthBool
        THEN NewExtractExpr(selectByte(mem, a, offset), 0, WidthBool)
        ELSE SelectBytes(mem, a, offset, width \div 8, isLittleEndian, 0, NilExpr)

RECURSIVE StoreBytes(_, _, _, _, _, _, _)
StoreBytes(mem, other, offset, value, n, isLittleEndian, i) ==
    IF i = n THEN mem
    ELSE LET byteOffset == IF isLittleEndian THEN i ELSE n - i - 1
         IN  StoreBytes(storeByte(mem, other,
                                  NewBinaryExpr(mem, "ADD", offset, NewConstantExpr64(byteOffset)),
                                  NewExtractExpr(value, i * 8, Width8)),
                        other, offset, value, n, isLittleEndian, i + 1)

\* Array.Store: clone the Array object, then storeByte into the clone.
ArrayStore(mem, a, offset0, value, isLittleEndian) ==
    LET other == ArrayClone(mem, a)
        offset == newZExtExpr(offset0, Width64)
        width == ExprWidth(value)
    IN  [mem |-> IF width = WidthBool
                 THEN storeByte(other.mem, other.ref, offset, value)
                 ELSE StoreBytes(other.mem, other.ref, offset, value, width \div 8,
                                 isLittleEndian, 0),
         ref |-> other.ref]

RECURSIVE ArrayEqualFrom(_, _, _, _, _)
ArrayEqualFrom(mem, a, other, i, cond) ==
    IF i >= mem.arrays[a].Size THEN cond
    ELSE LET index == NewConstantExpr64(i)
             expr == newEqExpr(mem, selectByte(mem, a, index), selectByte(mem, other, index))
         IN  IF IsConstantFalse(expr) THEN NewBoolConstantExpr(FALSE)
             ELSE ArrayEqualFrom(mem, a, other, i + 1,
                                 IF i = 0 THEN expr ELSE newAndExpr(cond, expr))

ArrayEqual(mem, a, other) ==
    IF mem.arrays[a].Size # mem.arrays[other].Size THEN NewBoolConstantExpr(FALSE)
    ELSE IF mem.arrays[a].Size = 0 THEN NewBoolConstantExpr(TRUE)
    ELSE ArrayEqualFrom(mem, a, other, 0, NilExpr)

\* The update chain reachable from an array, newest first.
RECURSIVE ChainFrom(_, _)
ChainFrom(mem, upd) ==
    IF upd = 0 THEN << >>
    ELSE << [Index |-> mem.updates[upd].Index, Value |-> mem.updates[upd].Value] >>
         \o ChainFrom(mem, mem.updates[upd].Next)

Chain(mem, a) == ChainFrom(mem, mem.arrays[a].Updates)

(***************************************************************************)
(* Execution states (execution_state.go).  A world w holds every object    *)
(* the executor owns: w.states (the state with id i is w.states[i]),       *)
(* w.mem, w.searcher and w.stateIDSeq, and the error w.err of the call in  *)
(* progress ("" is nil, "panic" a Go panic).  A binding is an expression,  *)
(* an array [kind |-> "array", ref], a tuple or nil.                       *)
(*                                                                         *)
(* An operation that needs a computed value more than once computes it     *)
(* once and hands it to a helper: Only({ H(x) : x \in {e} }) is H applied   *)
(* to the value of e.                                                      *)
(***************************************************************************)
Only(S) == CHOOSE x \in S : TRUE

GoPanic == "panic"

Raise(w, err) == [w EXCEPT !.err = err]

ExecutionStatusRunning == "running"
ExecutionStatusFinished == "finished"
ExecutionStatusPanicked == "panicked"
ExecutionStatusFailed == "failed"
ExecutionStatusExited == "exited"

ArrayBinding(a) == [kind |-> "array", ref |-> a]

TupleBinding(elems) == [kind |-> "tuple", elems |-> elems]

RECURSIVE SortedKeys(_)
SortedKeys(S) ==
    IF S = {} THEN << >>
    ELSE LET m == CHOOSE x \in S : \A y \in S : x <= y
         IN  << m >> \o SortedKeys(S \ {m})

NewStackFrame(fn) ==
    [fn |-> fn, locals |-> << >>, bindings |-> << >>, block |-> 1, prev |-> 0, pc |-> -1]

Frame(st) == st.stack[Len(st.stack)]

HasFrame(st) == Len(st.stack) > 0

HasCallerFrame(st) == Len(st.stack) > 1

CallerFrame(st) == st.stack[Len(st.stack) - 1]

\* f.bindings[value]: nil when the value is not bound.
Lookup(f, value) == IF value \in DOMAIN f.bindings THEN f.bindings[value] ELSE NilExpr

bind(f, value, b) ==
    [f EXCEPT !.bindings = [v \in DOMAIN f.bindings \cup {value} |->
                               IF v = value THEN b ELSE f.bindings[v]]]

jump(f, dst) == [f EXCEPT !.prev = f.block, !.block = dst, !.pc = -1]

Terminated(st) == st.status # ExecutionStatusRunning

Forked(st) == Len(st.children) > 0

\* AddConstraint without its assert.
AddConstraintUnchecked(expr) == FALSE

\* The panic of AddConstraint: a constant that is not true, possibly below
\* a conjunction.
RECURSIVE AddConstraintPanics(_)
AddConstraintPanics(expr) ==
    IF IsConstantExpr(expr) THEN ~IsTrue(expr)
    ELSE IF IsBinaryOp(expr, "AND")
    THEN AddConstraintPanics(expr.LHS) \/ AddConstraintPanics(expr.RHS)
    ELSE FALSE

\* The constraint appended whole, a conjunction not split.
AddConstraintWhole(constraints, expr) == Append(constraints, expr)

\* The constraint put in front of the list instead.
AddConstraintFront(constraints, expr) == << expr >> \o constraints

\* The conjunction split with its right operand appended first.
RECURSIVE AddConstraintRightFirst(_, _)
AddConstraintRightFirst(constraints, expr) ==
    IF IsBinaryOp(expr, "AND")
    THEN AddConstraintRightFirst(AddConstraintRightFirst(constraints, expr.RHS), expr.LHS)
    ELSE Append(constraints, expr)


RECURSIVE AddConstraint(_, _)
AddConstraint(constraints, expr) ==
    IF IsBinaryOp(expr, "AND")
    THEN AddConstraint(AddConstraint(constraints, expr.LHS), expr.RHS)
    ELSE Append(constraints, expr)

\* Clone copies the stack and the constraints; the heap map is immutable and
\* is shared, and so is every array it refers to.  The history of the
\* state's allocations goes with the copy.
Clone(st) ==
    [id |-> 0, parent |-> st.parent, children |-> << >>, stack |-> st.stack,
     status |-> st.status, reason |-> "", heap |-> st.heap,
     constraints |-> st.constraints, allocs |-> st.allocs]

\* Fork: the child is the new last element of w.states.  A nil constraint
\* is NilExpr.
Fork(w, s, constraint) ==
    [w EXCEPT !.states =
        Append([@ EXCEPT ![s].children = Append(@, Len(w.states) + 1)],
               [Clone(w.states[s]) EXCEPT
                   !.parent = s,
                   !.constraints = IF constraint.kind = "nil" THEN @
                                   ELSE AddConstraint(@, constraint)])]

\* The state a Fork has just created.
NewState(w) == Len(w.states)

\* The next address taken to be the address of the highest entry.
nextAddrAtLast(mem, st) ==
    IF DOMAIN st.heap = {} THEN PointerWidth ELSE Max(DOMAIN st.heap)

\* The first address taken to be the pointer width in bytes.
nextAddrBytes(mem, st) ==
    IF DOMAIN st.heap = {} THEN PointerWidth \div 8
    ELSE Max(DOMAIN st.heap) + mem.arrays[st.heap[Max(DOMAIN st.heap)]].Size


nextAddr(mem, st) ==
    IF DOMAIN st.heap = {} THEN PointerWidth
    ELSE LET k == Max(DOMAIN st.heap)
         IN  k + mem.arrays[st.heap[k]].Size

HeapSet(heap, addr, a) ==
    [k \in DOMAIN heap \cup {addr} |-> IF k = addr THEN a ELSE heap[k]]

HeapDelete(heap, addr) == [k \in DOMAIN heap \ {addr} |-> heap[k]]

\* The arrays of a heap, as address and size.
Live(mem, heap) == {<< k, mem.arrays[heap[k]].Size >> : k \in DOMAIN heap}

\* The array n is put into the heap at addr.  The allocation is recorded in
\* the state's history with the arrays that were in the heap before it.
AllocAt(w, s, addr, n) ==
    [w |-> [w EXCEPT !.mem = n.mem, !.states[s].heap = HeapSet(@, addr, n.ref),
                     !.states[s].allocs =
                        Append(@, [addr |-> addr, size |-> n.mem.arrays[n.ref].Size,
                                   live |-> Live(w.mem, w.states[s].heap)])],
     addr |-> NewConstantExpr(addr, PointerWidth),
     array |-> n.ref]

Alloc(w, s, width) ==
    AllocAt(w, s, nextAddr(w.mem, w.states[s]),
            NewArray(w.mem, nextAddr(w.mem, w.states[s]), width))

\* The backwards walk of findAllocContainingAddr over the sorted keys,
\* starting at position i.  The result is [base, array], array 0 for nil.
RECURSIVE findAllocWalk(_, _, _, _, _)
findAllocWalk(mem, heap, keys, i, addr) ==
    IF i = 0 THEN [base |-> NilExpr, array |-> 0]
    ELSE LET key == keys[i]
             size == mem.arrays[heap[key]].Size
         IN  IF addr.Value >= key /\ addr.Value < key + size
             THEN [base |-> NewConstantExpr(key, PointerWidth), array |-> heap[key]]
             ELSE IF addr.Value > key + size
             THEN [base |-> NilExpr, array |-> 0]
             ELSE findAllocWalk(mem, heap, keys, i - 1, addr)

\* The lookup by base address alone.
findAllocExact(mem, st, addr) ==
    IF addr.Value \in DOMAIN st.heap
    THEN [base |-> NewConstantExpr(addr.Value, PointerWidth), array |-> st.heap[addr.Value]]
    ELSE [base |-> NilExpr, array |-> 0]

findAllocContainingAddr(mem, st, addr) ==
    LET keys == SortedKeys(DOMAIN st.heap)
        ge == {i \in 1..Len(keys) : keys[i] >= addr.Value}
        start == IF ge = {} THEN Len(keys)
                 ELSE CHOOSE i \in ge : \A j \in ge : i <= j
    IN  findAllocWalk(mem, st.heap, keys, start, addr)

\* s.heap = s.heap.Set(base, array) for an array n = [mem, ref] just made.
SetHeapArray(n, w, s, base) ==
    [w EXCEPT !.mem = n.mem, !.states[s].heap = HeapSet(@, base, n.ref)]

\* The assertions of Store: the allocation exists, and storeByte's index is
\* within the array for each of the value's bytes.
StoreInto(w, s, addr, value, found) ==
    IF found.array = 0 THEN Raise(w, GoPanic)
    ELSE IF addr.Value - found.base.Value
               + (IF ExprWidth(value) = WidthBool THEN 1 ELSE ExprWidth(value) \div 8)
            > w.mem.arrays[found.array].Size
    THEN Raise(w, GoPanic)
    ELSE SetHeapArray(ArrayStore(w.mem, found.array, newSubExpr(w.mem, addr, found.base),
                                 value, IsLittleEndian),
                      w, s, found.base.Value)

\* ExecutionState.Store
StateStore(w, s, addr, value) ==
    Only({ StoreInto(w, s, addr, value, found) :
              found \in {findAllocContainingAddr(w.mem, w.states[s], addr)} })

RECURSIVE CopyBytes(_, _, _, _, _, _)
CopyBytes(mem, newArray, addr, base, value, i) ==
    IF i >= mem.arrays[value].Size THEN mem
    ELSE CopyBytes(storeByte(mem, newArray,
                             newAddExpr(mem, newSubExpr(mem, addr, base), NewConstantExpr64(i)),
                             selectByte(mem, value, NewConstantExpr64(i))),
                   newArray, addr, base, value, i + 1)

CopyInto(w, s, addr, value, found, c) ==
    SetHeapArray([mem |-> CopyBytes(c.mem, c.ref, addr, found.base, value, 0), ref |-> c.ref],
                 w, s, found.base.Value)

\* The assertions of Copy, as for Store.
CopyFound(w, s, addr, value, found) ==
    IF found.array = 0 THEN Raise(w, GoPanic)
    ELSE IF addr.Value - found.base.Value + w.mem.arrays[value].Size
            > w.mem.arrays[found.array].Size
    THEN Raise(w, GoPanic)
    ELSE Only({ CopyInto(w, s, addr, value, found, c) :
                   c \in {ArrayClone(w.mem, found.array)} })

\* ExecutionState.Copy: array.Clone(), then storeByte into the clone.
StateCopy(w, s, addr, value) ==
    Only({ CopyFound(w, s, addr, value, found) :
              found \in {findAllocContainingAddr(w.mem, w.states[s], addr)} })

(***************************************************************************)
(* SSA programs.  A function is [Params, Locals, Blocks]; a block is       *)
(* [Instrs, Succs]; an instruction is a record whose op names its SSA      *)
(* type.  An operand is a named value, or an int, bool or string constant. *)
(***************************************************************************)
V(n) == [k |-> "value", n |-> n]

CInt(v, width) == [k |-> "int", v |-> v, width |-> width]

CStr(bytes) == [k |-> "string", bytes |-> bytes]

NoOperand == [k |-> "none"]

NilInstr == [op |-> "nil"]

GleePath == "github.com/benbjohnson/glee"

\* x := glee.Byte() ; if x == 1 { } ; return
ProgIf ==
    [main |->
      [Params |-> << >>, Locals |-> << >>,
       Blocks |-> <<
         [Instrs |-> << [op |-> "Call", name |-> "t0", path |-> GleePath, fn |-> "Byte",
                         args |-> << >>, width |-> Width8],
                        [op |-> "BinOp", name |-> "t1", typ |-> "int", tok |-> "EQL",
                         X |-> V("t0"), Y |-> CInt(1, Width8)],
                        [op |-> "If", Cond |-> V("t1")] >>,
          Succs |-> << 2, 3 >>],
         [Instrs |-> << [op |-> "Jump"] >>, Succs |-> << 3 >>],
         [Instrs |-> << [op |-> "Return", Results |-> << >>] >>, Succs |-> << >>] >>]]

\* func main() { y := callee(glee.Byte()) ; if y != 2 { } }
\* func callee(x byte) byte { return x }
ProgCall ==
    [main |->
      [Params |-> << >>, Locals |-> << >>,
       Blocks |-> <<
         [Instrs |-> << [op |-> "Call", name |-> "t0", path |-> GleePath, fn |-> "Byte",
                         args |-> << >>, width |-> Width8],
                        [op |-> "Call", name |-> "t1", path |-> "main", fn |-> "callee",
                         args |-> << V("t0") >>, width |-> Width8],
                        [op |-> "BinOp", name |-> "t2", typ |-> "int", tok |-> "NEQ",
                         X |-> V("t1"), Y |-> CInt(2, Width8)],
                        [op |-> "If", Cond |-> V("t2")] >>,
          Succs |-> << 2, 2 >>],
         [Instrs |-> << [op |-> "Return", Results |-> << >>] >>, Succs |-> << >>] >>],
     callee |->
      [Params |-> << "x" >>, Locals |-> << >>,
       Blocks |-> <<
         [Instrs |-> << [op |-> "Return", Results |-> << V("x") >>] >>,
          Succs |-> << >>] >>]]

\* p := new(struct{ a, b byte }) ; if glee.Byte() == 1 { p.a = 1 } ; return
ProgStore ==
    [main |->
      [Params |-> << >>, Locals |-> << >>,
       Blocks |-> <<
         [Instrs |-> << [op |-> "Alloc", name |-> "t0", Heap |-> TRUE, size |-> 2],
                        [op |-> "Call", name |-> "t1", path |-> GleePath, fn |-> "Byte",
                         args |-> << >>, width |-> Width8],
                        [op |-> "BinOp", name |-> "t2", typ |-> "int", tok |-> "EQL",
                         X |-> V("t1"), Y |-> CInt(1, Width8)],
                        [op |-> "If", Cond |-> V("t2")] >>,
          Succs |-> << 2, 3 >>],
         [Instrs |-> << [op |-> "FieldAddr", name |-> "t3", X |-> V("t0"), offset |-> 0],
                        [op |-> "Store", Addr |-> V("t3"), Val |-> CInt(1, Width8)],
                        [op |-> "Jump"] >>,
          Succs |-> << 3 >>],
         [Instrs |-> << [op |-> "Return", Results |-> << >>] >>, Succs |-> << >>] >>]]

\* func main() { check(glee.Byte()) ; var v struct{ a, b byte } ; v.b = 1 }
\* func check(x byte) { glee.Assert(x == 1) ; glee.Assert(x == 2) ; if x == 3 { } }
ProgDead ==
    [main |->
      [Params |-> << >>, Locals |-> << [name |-> "t0", size |-> 2] >>,
       Blocks |-> <<
         [Instrs |-> << [op |-> "Alloc", name |-> "t0", Heap |-> FALSE, size |-> 2],
                        [op |-> "Call", name |-> "t1", path |-> GleePath, fn |-> "Byte",
                         args |-> << >>, width |-> Width8],
                        [op |-> "Call", name |-> "t2", path |-> "main", fn |-> "check",
                         args |-> << V("t1") >>, width |-> 0],
                        [op |-> "FieldAddr", name |-> "t3", X |-> V("t0"), offset |-> 1],
                        [op |-> "Store", Addr |-> V("t3"), Val |-> CInt(1, Width8)],
                        [op |-> "Return", Results |-> << >>] >>,
          Succs |-> << >>] >>],
     check |->
      [Params |-> << "x" >>, Locals |-> << >>,
       Blocks |-> <<
         [Instrs |-> << [op |-> "BinOp", name |-> "t0", typ |-> "int", tok |-> "EQL",
                         X |-> V("x"), Y |-> CInt(1, Width8)],
                        [op |-> "Call", name |-> "t1", path |-> GleePath, fn |-> "Assert",
                         args |-> << V("t0") >>, width |-> 0],
                        [op |-> "BinOp", name |-> "t2", typ |-> "int", tok |-> "EQL",
                         X |-> V("x"), Y |-> CInt(2, Width8)],
                        [op |-> "Call", name |-> "t3", path |-> GleePath, fn |-> "Assert",
                         args |-> << V("t2") >>, width |-> 0],
                        [op |-> "BinOp", name |-> "t4", typ |-> "int", tok |-> "EQL",
                         X |-> V("x"), Y |-> CInt(3, Width8)],
                        [op |-> "If", Cond |-> V("t4")] >>,
          Succs |-> << 2, 2 >>],
         [Instrs |-> << [op |-> "Return", Results |-> << >>] >>, Succs |-> << >>] >>]]

\* s := glee.String(2) ; _ = s[:3] ; _ = glee.Byte() ; return
ProgSlice ==
    [main |->
      [Params |-> << >>, Locals |-> << >>,
       Blocks |-> <<
         [Instrs |-> << [op |-> "Call", name |-> "t0", path |-> GleePath, fn |-> "String",
                         args |-> << CInt(2, Width64) >>, width |-> 0],
                        [op |-> "Slice", name |-> "t1", X |-> V("t0"),
                         Low |-> NoOperand, High |-> CInt(3, Width64)],
                        [op |-> "Call", name |-> "t2", path |-> GleePath, fn |-> "Byte",
                         args |-> << >>, width |-> Width8],
                        [op |-> "Return", Results |-> << >>] >>,
          Succs |-> << >>] >>]]

\* if glee.String(2) == "\x01\x02" { } else { defer f() } ; return
ProgString ==
    [main |->
      [Params |-> << >>, Locals |-> << >>,
       Blocks |-> <<
         [Instrs |-> << [op |-> "Call", name |-> "t0", path |-> GleePath, fn |-> "String",
                         args |-> << CInt(2, Width64) >>, width |-> 0],
                        [op |-> "BinOp", name |-> "t1", typ |-> "string", tok |-> "EQL",
                         X |-> V("t0"), Y |-> CStr(<< 1, 2 >>)],
                        [op |-> "If", Cond |-> V("t1")] >>,
          Succs |-> << 2, 3 >>],
         [Instrs |-> << [op |-> "Return", Results |-> << >>] >>, Succs |-> << >>],
         [Instrs |-> << [op |-> "Defer"],
                        [op |-> "Return", Results |-> << >>] >>,
          Succs |-> << >>] >>]]

\* x := glee.Byte() ; if x != 0 { if x == 1 { } } ; return
ProgNested ==
    [main |->
      [Params |-> << >>, Locals |-> << >>,
       Blocks |-> <<
         [Instrs |-> << [op |-> "Call", name |-> "t0", path |-> GleePath, fn |-> "Byte",
                         args |-> << >>, width |-> Width8],
                        [op |-> "BinOp", name |-> "t1", typ |-> "int", tok |-> "NEQ",
                         X |-> V("t0"), Y |-> CInt(0, Width8)],
                        [op |-> "If", Cond |-> V("t1")] >>,
          Succs |-> << 2, 3 >>],
         [Instrs |-> << [op |-> "BinOp", name |-> "t2", typ |-> "int", tok |-> "EQL",
                         X |-> V("t0"), Y |-> CInt(1, Width8)],
                        [op |-> "If", Cond |-> V("t2")] >>,
          Succs |-> << 3, 3 >>],
         [Instrs |-> << [op |-> "Return", Results |-> << >>] >>, Succs |-> << >>] >>]]


\* func main() { a, b := pair(glee.Byte()) ; _ = glee.Byte() }
\* func pair(x byte) (byte, byte) { var l byte ; return x, 1 }
ProgFrames ==
    [main |->
      [Params |-> << >>, Locals |-> << >>,
       Blocks |-> <<
         [Instrs |-> << [op |-> "Call", name |-> "t0", path |-> GleePath, fn |-> "Byte",
                         args |-> << >>, width |-> Width8],
                        [op |-> "Call", name |-> "t1", path |-> "main", fn |-> "pair",
                         args |-> << V("t0") >>, width |-> 0],
                        [op |-> "Call", name |-> "t2", path |-> GleePath, fn |-> "Byte",
                         args |-> << >>, width |-> Width8],
                        [op |-> "Return", Results |-> << >>] >>,
          Succs |-> << >>] >>],
     pair |->
      [Params |-> << "x" >>, Locals |-> << [name |-> "l0", size |-> 1] >>,
       Blocks |-> <<
         [Instrs |-> << [op |-> "Alloc", name |-> "l0", Heap |-> FALSE, size |-> 1],
                        [op |-> "Return", Results |-> << V("x"), CInt(1, Width8) >>] >>,
          Succs |-> << >>] >>]]

\* func main() { _ = glee.String(0) ; _ = glee.Byte() ; f() }
\* func f() { var l struct{} ; p := new(byte) }
ProgZero ==
    [main |->
      [Params |-> << >>, Locals |-> << >>,
       Blocks |-> <<
         [Instrs |-> << [op |-> "Call", name |-> "t0", path |-> GleePath, fn |-> "String",
                         args |-> << CInt(0, Width64) >>, width |-> 0],
                        [op |-> "Call", name |-> "t1", path |-> GleePath, fn |-> "Byte",
                         args |-> << >>, width |-> Width8],
                        [op |-> "Call", name |-> "t2", path |-> "main", fn |-> "f",
                         args |-> << >>, width |-> 0],
                        [op |-> "Return", Results |-> << >>] >>,
          Succs |-> << >>] >>],
     f |->
      [Params |-> << >>, Locals |-> << [name |-> "l0", size |-> 0] >>,
       Blocks |-> <<
         [Instrs |-> << [op |-> "Alloc", name |-> "l0", Heap |-> FALSE, size |-> 0],
                        [op |-> "Alloc", name |-> "t0", Heap |-> TRUE, size |-> 1],
                        [op |-> "Return", Results |-> << >>] >>,
          Succs |-> << >>] >>]]


\* x := glee.Int8() ; y := glee.Uint8() ; if x < 1 { } ; if y < 1 { } ; return
ProgSigned ==
    [main |->
      [Params |-> << >>, Locals |-> << >>,
       Blocks |-> <<
         [Instrs |-> << [op |-> "Call", name |-> "t0", path |-> GleePath, fn |-> "Int8",
                         args |-> << >>, width |-> Width8],
                        [op |-> "Call", name |-> "t1", path |-> GleePath, fn |-> "Uint8",
                         args |-> << >>, width |-> Width8],
                        [op |-> "BinOp", name |-> "t2", typ |-> "int8", tok |-> "LSS",
                         X |-> V("t0"), Y |-> CInt(1, Width8)],
                        [op |-> "If", Cond |-> V("t2")] >>,
          Succs |-> << 2, 2 >>],
         [Instrs |-> << [op |-> "BinOp", name |-> "t3", typ |-> "uint8", tok |-> "LSS",
                         X |-> V("t1"), Y |-> CInt(1, Width8)],
                        [op |-> "If", Cond |-> V("t3")] >>,
          Succs |-> << 3, 3 >>],
         [Instrs |-> << [op |-> "Return", Results |-> << >>] >>, Succs |-> << >>] >>]]

\* x := glee.Byte() ; glee.Assert(x != x) ; return
ProgFalse ==
    [main |->
      [Params |-> << >>, Locals |-> << >>,
       Blocks |-> <<
         [Instrs |-> << [op |-> "Call", name |-> "t0", path |-> GleePath, fn |-> "Byte",
                         args |-> << >>, width |-> Width8],
                        [op |-> "BinOp", name |-> "t1", typ |-> "uint8", tok |-> "NEQ",
                         X |-> V("t0"), Y |-> V("t0")],
                        [op |-> "Call", name |-> "t2", path |-> GleePath, fn |-> "Assert",
                         args |-> << V("t1") >>, width |-> 0],
                        [op |-> "Return", Results |-> << >>] >>,
          Succs |-> << >>] >>]]

\* x := glee.Byte()
\* if x == 1 { go f() } else if x == 2 { m := make(map[byte]byte) }
\* else if x == 3 { c := make(chan byte) } else { _ = v.(T) }
ProgUnsupported ==
    [main |->
      [Params |-> << >>, Locals |-> << >>,
       Blocks |-> <<
         [Instrs |-> << [op |-> "Call", name |-> "t0", path |-> GleePath, fn |-> "Byte",
                         args |-> << >>, width |-> Width8],
                        [op |-> "BinOp", name |-> "t1", typ |-> "uint8", tok |-> "EQL",
                         X |-> V("t0"), Y |-> CInt(1, Width8)],
                        [op |-> "If", Cond |-> V("t1")] >>,
          Succs |-> << 2, 3 >>],
         [Instrs |-> << [op |-> "Go"],
                        [op |-> "Return", Results |-> << >>] >>, Succs |-> << >>],
         [Instrs |-> << [op |-> "BinOp", name |-> "t2", typ |-> "uint8", tok |-> "EQL",
                         X |-> V("t0"), Y |-> CInt(2, Width8)],
                        [op |-> "If", Cond |-> V("t2")] >>,
          Succs |-> << 4, 5 >>],
         [Instrs |-> << [op |-> "MakeMap", name |-> "t3"],
                        [op |-> "Return", Results |-> << >>] >>, Succs |-> << >>],
         [Instrs |-> << [op |-> "BinOp", name |-> "t4", typ |-> "uint8", tok |-> "EQL",
                         X |-> V("t0"), Y |-> CInt(3, Width8)],
                        [op |-> "If", Cond |-> V("t4")] >>,
          Succs |-> << 6, 7 >>],
         [Instrs |-> << [op |-> "MakeChan", name |-> "t5"],
                        [op |-> "Return", Results |-> << >>] >>, Succs |-> << >>],
         [Instrs |-> << [op |-> "TypeAssert", name |-> "t6"],
                        [op |-> "Return", Results |-> << >>] >>, Succs |-> << >>] >>]]

\* s := glee.String(2) ; a := s[1:2] ; _ = s[3:] ; return
ProgSliceLow ==
    [main |->
      [Params |-> << >>, Locals |-> << >>,
       Blocks |-> <<
         [Instrs |-> << [op |-> "Call", name |-> "t0", path |-> GleePath, fn |-> "String",
                         args |-> << CInt(2, Width64) >>, width |-> 0],
                        [op |-> "Slice", name |-> "t1", X |-> V("t0"),
                         Low |-> CInt(1, Width64), High |-> CInt(2, Width64)],
                        [op |-> "Slice", name |-> "t2", X |-> V("t0"),
                         Low |-> CInt(3, Width64), High |-> NoOperand],
                        [op |-> "Return", Results |-> << >>] >>,
          Succs |-> << >>] >>]]

\* x := glee.Byte() ; f := 0.5 ; _ = f * f ; return
ProgFloat ==
    [main |->
      [Params |-> << >>, Locals |-> << >>,
       Blocks |-> <<
         [Instrs |-> << [op |-> "Call", name |-> "t0", path |-> GleePath, fn |-> "Byte",
                         args |-> << >>, width |-> Width8],
                        [op |-> "BinOp", name |-> "t1", typ |-> "float64", tok |-> "MUL",
                         X |-> CInt(0, Width64), Y |-> CInt(0, Width64)],
                        [op |-> "Return", Results |-> << >>] >>,
          Succs |-> << >>] >>]]

\* x := glee.Byte() ; if x == 1 { for { _ = x == 2 } } ; return
ProgLoop ==
    [main |->
      [Params |-> << >>, Locals |-> << >>,
       Blocks |-> <<
         [Instrs |-> << [op |-> "Call", name |-> "t0", path |-> GleePath, fn |-> "Byte",
                         args |-> << >>, width |-> Width8],
                        [op |-> "BinOp", name |-> "t1", typ |-> "uint8", tok |-> "EQL",
                         X |-> V("t0"), Y |-> CInt(1, Width8)],
                        [op |-> "If", Cond |-> V("t1")] >>,
          Succs |-> << 2, 3 >>],
         [Instrs |-> << [op |-> "BinOp", name |-> "t2", typ |-> "uint8", tok |-> "EQL",
                         X |-> V("t0"), Y |-> CInt(2, Width8)],
                        [op |-> "Jump"] >>, Succs |-> << 2 >>],
         [Instrs |-> << [op |-> "Return", Results |-> << >>] >>, Succs |-> << >>] >>]]

Programs ==
    << ProgIf, ProgCall, ProgStore, ProgDead, ProgSlice, ProgString, ProgNested,
       ProgFrames, ProgZero, ProgSigned, ProgFalse, ProgUnsupported, ProgFloat,
       ProgSliceLow, ProgLoop >>

\* The programs on which every call of ExecuteNextState returns.  A call on
\* the state that is in the loop of ProgLoop has no state to return in.
Returning == { p \in 1..Len(Programs) : Programs[p] # ProgLoop }

(***************************************************************************)
(* Search strategies (executor.go).  A searcher is [kind, states, index,   *)
(* searchers]; states holds state ids.                                     *)
(***************************************************************************)
NewDFSSearcher == [kind |-> "dfs", states |-> << >>]

NewBFSSearcher == [kind |-> "bfs", states |-> << >>]

NewRandomSearcher == [kind |-> "random", states |-> << >>]

NewRandomPathSearcher == [kind |-> "randompath", states |-> << >>]

NewMultiSearcher(searchers) == [kind |-> "multi", searchers |-> searchers, index |-> 0]

RemoveAt(seq, i) == SubSeq(seq, 1, i - 1) \o SubSeq(seq, i + 1, Len(seq))

\* The leaves below a state: the states a random descent can end in.
RECURSIVE Leaves(_, _)
Leaves(states, s) ==
    IF Len(states[s].children) = 0 THEN {s}
    ELSE UNION {Leaves(states, states[s].children[i]) : i \in 1..Len(states[s].children)}

\* The values the random source can produce for one SelectState call: an
\* index into the pool of a random searcher, a leaf for a random-path one.
SimpleChoices(searcher, states) ==
    CASE searcher.kind = "random" ->
            IF Len(searcher.states) = 0 THEN {0} ELSE 1..Len(searcher.states)
      [] searcher.kind = "randompath" -> Leaves(states, 1)
      [] OTHER -> {0}

RandChoices(searcher, states) ==
    IF searcher.kind = "multi"
    THEN SimpleChoices(searcher.searchers[searcher.index + 1], states)
    ELSE SimpleChoices(searcher, states)

\* SelectState taking a depth-first searcher's oldest state instead.
SimpleSelectStateOldest(searcher, r) ==
    IF Len(searcher.states) = 0 THEN [searcher |-> searcher, state |-> 0]
    ELSE [searcher |-> [searcher EXCEPT !.states = Tail(@)], state |-> Head(searcher.states)]


\* SelectState of the four simple searchers; state 0 is nil.
SimpleSelectState(searcher, r) ==
    CASE searcher.kind = "dfs" ->
            IF Len(searcher.states) = 0 THEN [searcher |-> searcher, state |-> 0]
            ELSE [searcher |-> [searcher EXCEPT !.states = SubSeq(@, 1, Len(@) - 1)],
                  state |-> searcher.states[Len(searcher.states)]]
      [] searcher.kind = "bfs" ->
            IF Len(searcher.states) = 0 THEN [searcher |-> searcher, state |-> 0]
            ELSE [searcher |-> [searcher EXCEPT !.states = Tail(@)],
                  state |-> Head(searcher.states)]
      [] searcher.kind = "random" ->
            IF Len(searcher.states) = 0 THEN [searcher |-> searcher, state |-> 0]
            ELSE [searcher |-> [searcher EXCEPT !.states = RemoveAt(@, r)],
                  state |-> searcher.states[r]]
      [] searcher.kind = "randompath" -> [searcher |-> searcher, state |-> r]

\* A MultiSearcher that asks its first sub-searcher every time.
SelectStateFirst(searcher, r) ==
    IF searcher.kind = "multi"
    THEN LET sel == SimpleSelectState(searcher.searchers[1], r)
         IN  [searcher |-> [searcher EXCEPT !.searchers[1] = sel.searcher],
              state |-> sel.state]
    ELSE SimpleSelectState(searcher, r)

SelectState(searcher, r) ==
    IF searcher.kind = "multi"
    THEN LET sel == SimpleSelectState(searcher.searchers[searcher.index + 1], r)
             next == IF searcher.index + 1 >= Len(searcher.searchers) THEN 0
                     ELSE searcher.index + 1
         IN  [searcher |-> [searcher EXCEPT !.searchers[searcher.index + 1] = sel.searcher,
                                            !.index = next],
              state |-> sel.state]
    ELSE SimpleSelectState(searcher, r)

\* AddState putting the state at the front of the list instead.
SimpleAddStateFront(searcher, state) ==
    IF searcher.kind = "randompath" THEN searcher
    ELSE [searcher EXCEPT !.states = << state >> \o @]

SimpleAddState(searcher, state) ==
    IF searcher.kind = "randompath" THEN searcher
    ELSE [searcher EXCEPT !.states = Append(@, state)]

AddState(searcher, state) ==
    IF searcher.kind = "multi"
    THEN [searcher EXCEPT !.searchers =
             [i \in 1..Len(searcher.searchers) |-> SimpleAddState(searcher.searchers[i], state)]]
    ELSE SimpleAddState(searcher, state)

(***************************************************************************)
(* The solver.  Solve decides satisfiability by looking for initial bytes  *)
(* of the symbolic arrays under which every constraint evaluates to true,  *)
(* each expression evaluated as ExprEvaluator does.                        *)
(***************************************************************************)
RECURSIVE ExprArrays(_)
ExprArrays(expr) ==
    CASE expr.kind = "const" -> {}
      [] expr.kind = "notopt" -> ExprArrays(expr.Src)
      [] expr.kind = "select" -> {expr.Array} \cup ExprArrays(expr.Index)
      [] expr.kind = "concat" -> ExprArrays(expr.MSB) \cup ExprArrays(expr.LSB)
      [] expr.kind = "extract" -> ExprArrays(expr.Expr)
      [] expr.kind = "not" -> ExprArrays(expr.Expr)
      [] expr.kind = "cast" -> ExprArrays(expr.Src)
      [] expr.kind = "binary" -> ExprArrays(expr.LHS) \cup ExprArrays(expr.RHS)

RECURSIVE Evaluate(_, _, _)
RECURSIVE EvaluateSelect(_, _, _, _, _)

EvaluateSelect(mem, m, a, i, upd) ==
    IF upd = 0 THEN NewConstantExpr(m[mem.arrays[a].ID][i.Value], Width8)
    ELSE IF Evaluate(mem, m, mem.updates[upd].Index).Value # i.Value
    THEN EvaluateSelect(mem, m, a, i, mem.updates[upd].Next)
    ELSE Evaluate(mem, m, mem.updates[upd].Value)

Evaluate(mem, m, expr) ==
    CASE expr.kind = "binary" ->
            NewBinaryExpr(mem, expr.Op, Evaluate(mem, m, expr.LHS), Evaluate(mem, m, expr.RHS))
      [] expr.kind = "cast" -> NewCastExpr(Evaluate(mem, m, expr.Src), expr.Width, expr.Signed)
      [] expr.kind = "concat" ->
            NewConcatExpr(Evaluate(mem, m, expr.MSB), Evaluate(mem, m, expr.LSB))
      [] expr.kind = "const" -> expr
      [] expr.kind = "extract" ->
            NewExtractExpr(Evaluate(mem, m, expr.Expr), expr.Offset, expr.Width)
      [] expr.kind = "not" -> NewNotExpr(Evaluate(mem, m, expr.Expr))
      [] expr.kind = "notopt" -> Evaluate(mem, m, expr.Src)
      [] expr.kind = "select" ->
            EvaluateSelect(mem, m, expr.Array, Evaluate(mem, m, expr.Index),
                           mem.arrays[expr.Array].Updates)

\* The satisfiability verdict of Solver.Solve for a list of constraints.
Solve(mem, constraints) ==
    LET arrays == UNION {ExprArrays(constraints[i]) : i \in 1..Len(constraints)}
        ids == {mem.arrays[a].ID : a \in arrays}
        size(id) == Max({mem.arrays[a].Size : a \in {b \in arrays : mem.arrays[b].ID = id}})
        values == [id \in ids |-> [0..(size(id) - 1) -> 0..MaxByte]]
    IN  \E m \in [ids -> UNION {values[id] : id \in ids}] :
            /\ \A id \in ids : m[id] \in values[id]
            /\ \A i \in 1..Len(constraints) : Evaluate(mem, m, constraints[i]).Value # 0

(***************************************************************************)
(* The executor (executor.go).  Besides the objects, a world carries the   *)
(* error err of the call in progress ("" is nil, "panic" a Go panic), the  *)
(* number of instructions it executed, the number of Solve calls it made,  *)
(* the Solve call failAt that the solver fails (0: none), and a record     *)
(* ifrec of the If instruction it executed.                                *)
(***************************************************************************)
ErrNoStateAvailable == "glee: no state available"

ErrNoInstructionAvailable == "glee: no instruction available"

ErrSolverTimeout == "Solver timeout"

ErrInvalidOSArch == "invalid os/arch combination"

NoIf == [state |-> 0]

Fn(w, name) == Programs[w.prog][name]

BlockInstrs(w, f) == Fn(w, f.fn).Blocks[f.block].Instrs

BlockSuccs(w, f) == Fn(w, f.fn).Blocks[f.block].Succs

FrameInstr(w, f) ==
    IF f.pc < 0 \/ f.pc >= Len(BlockInstrs(w, f)) THEN NilInstr
    ELSE BlockInstrs(w, f)[f.pc + 1]

NextInstr(w, f) ==
    IF f.pc < Len(BlockInstrs(w, f)) THEN [f EXCEPT !.pc = f.pc + 1] ELSE f

\* ExecutionState.Instr
StateInstr(w, s) ==
    IF HasFrame(w.states[s]) THEN FrameInstr(w, Frame(w.states[s])) ELSE NilInstr

Done(w, s) ==
    \/ Terminated(w.states[s])
    \/ Forked(w.states[s])
    \/ StateInstr(w, s).op \in {"If", "Return"}

nextStateID(w) == w.stateIDSeq + 1

\* Replace the current frame of state s.
SetFrame(w, s, f) == [w EXCEPT !.states[s].stack[Len(w.states[s].stack)] = f]

BindInFrame(w, s, value, b) == SetFrame(w, s, bind(Frame(w.states[s]), value, b))

RECURSIVE StringBytes(_, _, _, _)
StringBytes(mem, a, bytes, i) ==
    IF i > Len(bytes) THEN mem
    ELSE StringBytes(storeByte(mem, a, NewConstantExpr64(i - 1),
                               NewConstantExpr(bytes[i], Width8)),
                     a, bytes, i + 1)

\* The array of a string constant.
EvalString(w, bytes, n) ==
    [w |-> [w EXCEPT !.mem = StringBytes(n.mem, n.ref, bytes, 1)],
     b |-> ArrayBinding(n.ref)]

\* ExecutionState.Eval: the binding of an operand, and the world in which a
\* string constant has its array.
Eval(w, s, value) ==
    CASE value.k = "int" -> [w |-> w, b |-> NewConstantExpr(value.v, value.width)]
      [] value.k = "string" ->
            EvalString(w, value.bytes, NewArray(w.mem, 0, Len(value.bytes)))
      [] value.k = "value" ->
            [w |-> w,
             b |-> IF HasFrame(w.states[s]) THEN Lookup(Frame(w.states[s]), value.n)
                   ELSE NilExpr]
      [] value.k = "none" ->
            [w |-> w,
             b |-> IF HasFrame(w.states[s]) THEN Lookup(Frame(w.states[s]), "") ELSE NilExpr]

RECURSIVE EvalAll(_, _, _, _, _)
EvalNext(e, s, values, i, acc) == EvalAll(e.w, s, values, i + 1, Append(acc, e.b))

EvalAll(w, s, values, i, acc) ==
    IF i > Len(values) THEN [w |-> w, bs |-> acc]
    ELSE Only({ EvalNext(e, s, values, i, acc) : e \in {Eval(w, s, values[i])} })

\* The loop of Push over fn.Locals: allocate, zero, record and bind.
RECURSIVE PushLocals(_, _, _, _, _)
PushLocal(a, s, f, locals, i) ==
    PushLocals([a.w EXCEPT !.mem = zero(a.w.mem, a.array)], s,
               bind([f EXCEPT !.locals = Append(@, a.array)], locals[i].name, a.addr),
               locals, i + 1)

PushLocals(w, s, f, locals, i) ==
    IF i > Len(locals) THEN [w |-> w, f |-> f]
    ELSE Only({ PushLocal(a, s, f, locals, i) : a \in {Alloc(w, s, locals[i].size)} })

PushFrame(p, s) == [p.w EXCEPT !.states[s].stack = Append(@, p.f)]

Push(w, s, fn) ==
    Only({ PushFrame(p, s) : p \in {PushLocals(w, s, NewStackFrame(fn), Fn(w, fn).Locals, 1)} })

RECURSIVE DeleteLocals(_, _, _, _)
DeleteLocals(mem, heap, locals, i) ==
    IF i > Len(locals) THEN heap
    ELSE DeleteLocals(mem, HeapDelete(heap, mem.arrays[locals[i]].ID), locals, i + 1)

\* A heap as a map from address to the array's id, size and reference.
HeapArrays(mem, heap) ==
    [k \in DOMAIN heap |->
        [ID |-> mem.arrays[heap[k]].ID, Size |-> mem.arrays[heap[k]].Size, ref |-> heap[k]]]

\* The Pop of the top frame of state s is recorded in w.pops with the
\* frame's local arrays and the heap before and after.
Pop(w, s) ==
    [w EXCEPT !.states[s] =
        [@ EXCEPT !.heap = DeleteLocals(w.mem, @, Frame(w.states[s]).locals, 1),
                  !.stack = SubSeq(@, 1, Len(@) - 1),
                  !.status = IF Len(w.states[s].stack) = 1 THEN ExecutionStatusFinished
                             ELSE @],
              !.pops = Append(@,
                 [state |-> s,
                  locals |-> {[ID |-> w.mem.arrays[Frame(w.states[s]).locals[i]].ID,
                               Size |-> w.mem.arrays[Frame(w.states[s]).locals[i]].Size] :
                                 i \in 1..Len(Frame(w.states[s]).locals)},
                  before |-> HeapArrays(w.mem, w.states[s].heap),
                  after |-> HeapArrays(w.mem, DeleteLocals(w.mem, w.states[s].heap,
                                                          Frame(w.states[s]).locals, 1))])]

\* state.Fork(c), newState.id = e.nextStateID().
ForkState(w, s, constraint) ==
    [Fork(w, s, constraint) EXCEPT !.states[Len(w.states) + 1].id = nextStateID(w),
                                   !.stateIDSeq = nextStateID(w)]

\* e.Searcher.AddState(newState) for the state forked last.
AddNewState(w) == [w EXCEPT !.searcher = AddState(@, NewState(w))]

ZeroAlloc(a, s, name) ==
    BindInFrame([a.w EXCEPT !.mem = zero(a.w.mem, a.array)], s, name, a.addr)

executeAllocInstr(w, s, instr) ==
    IF ~instr.Heap THEN w
    ELSE Only({ ZeroAlloc(a, s, instr.name) : a \in {Alloc(w, s, instr.size)} })

\* The operator of a token: QUO, REM, SHR and the ordered comparisons have a
\* signed and an unsigned one.
BinaryOpOf(tok, signed) ==
    CASE tok = "ADD" -> "ADD" [] tok = "SUB" -> "SUB" [] tok = "MUL" -> "MUL"
      [] tok = "QUO" -> IF signed THEN "SDIV" ELSE "UDIV"
      [] tok = "REM" -> IF signed THEN "SREM" ELSE "UREM"
      [] tok = "AND" -> "AND" [] tok = "OR" -> "OR" [] tok = "XOR" -> "XOR"
      [] tok = "SHL" -> "SHL"
      [] tok = "SHR" -> IF signed THEN "ASHR" ELSE "LSHR"
      [] tok = "AND_NOT" -> "XOR" [] tok = "EQL" -> "EQ" [] tok = "NEQ" -> "NE"
      [] tok = "LSS" -> IF signed THEN "SLT" ELSE "ULT"
      [] tok = "LEQ" -> IF signed THEN "SLE" ELSE "ULE"
      [] tok = "GTR" -> IF signed THEN "SGT" ELSE "UGT"
      [] tok = "GEQ" -> IF signed THEN "SGE" ELSE "UGE"

BinOpInteger(e, s, instr, signed) ==
    IF ~IsExpr(e.bs[1]) \/ ~IsExpr(e.bs[2]) THEN Raise(e.w, GoPanic)
    ELSE IF NewBinaryExprPanics(BinaryOpOf(instr.tok, signed), e.bs[1], e.bs[2])
    THEN Raise(e.w, GoPanic)
    ELSE BindInFrame(e.w, s, instr.name,
                     NewBinaryExpr(e.w.mem, BinaryOpOf(instr.tok, signed), e.bs[1],
                                   e.bs[2]))

executeBinOpInstrInteger(w, s, instr, signed) ==
    Only({ BinOpInteger(e, s, instr, signed) :
              e \in {EvalAll(w, s, << instr.X, instr.Y >>, 1, << >>)} })

BinOpString(e, s, instr) ==
    IF instr.tok # "EQL" THEN Raise(e.w, "invalid string binop operator")
    ELSE IF e.bs[1].kind # "array" \/ e.bs[2].kind # "array" THEN Raise(e.w, GoPanic)
    ELSE BindInFrame(e.w, s, instr.name, ArrayEqual(e.w.mem, e.bs[1].ref, e.bs[2].ref))

executeBinOpInstrString(w, s, instr) ==
    Only({ BinOpString(e, s, instr) : e \in {EvalAll(w, s, << instr.X, instr.Y >>, 1, << >>)} })

\* The flag of types.BasicInfo for the unsigned integer types.
IsUnsigned == 4

\* The basic types with IsInteger: typ.Info() of the unsigned ones has
\* IsUnsigned as well.
IntegerTypes == {"int", "int8", "uint8"}

executeBinOpInstrFloat(w, s, instr) ==
    Raise(w, "floating-point operations are not supported")

\* The argument for signed is the source's types.IsUnsigned == 0.
executeBinOpInstr(w, s, instr) ==
    CASE instr.typ \in IntegerTypes -> executeBinOpInstrInteger(w, s, instr, IsUnsigned = 0)
      [] instr.typ = "float64" -> executeBinOpInstrFloat(w, s, instr)
      [] instr.typ = "string" -> executeBinOpInstrString(w, s, instr)
      [] OTHER -> Raise(w, "unexpected binop basic type")

AssertCond(args, s) ==
    IF ~IsExpr(args.bs[1])
    THEN Raise(args.w, "glee.Assert(): unable to assert non-expression")
    ELSE IF AddConstraintPanics(args.bs[1]) THEN Raise(args.w, GoPanic)
    ELSE [args.w EXCEPT !.states[s].constraints = AddConstraint(@, args.bs[1])]

execAssert(w, s, instr) ==
    Only({ AssertCond(args, s) : args \in {EvalAll(w, s, instr.args, 1, << >>)} })

SelectInt(a, s, instr) ==
    BindInFrame(a.w, s, instr.name,
                ArraySelect(a.w.mem, a.array, NewConstantExpr(0, Width32), instr.width,
                            IsLittleEndian))

execInt(w, s, instr) ==
    Only({ SelectInt(a, s, instr) : a \in {Alloc(w, s, instr.width \div 8)} })

BindString(a, s, instr) == BindInFrame(a.w, s, instr.name, ArrayBinding(a.array))

StringOfSize(args, s, instr) ==
    IF ~IsConstantExpr(args.bs[1])
    THEN Raise(args.w, "glee.String(): only constant size allowed")
    ELSE Only({ BindString(a, s, instr) : a \in {Alloc(args.w, s, args.bs[1].Value)} })

execString(w, s, instr) ==
    Only({ StringOfSize(args, s, instr) : args \in {EvalAll(w, s, instr.args, 1, << >>)} })

\* Parameters left unbound.
BindNoParams(f, params, args, i) == f


RECURSIVE BindParams(_, _, _, _)
BindParams(f, params, args, i) ==
    IF i > Len(args) THEN f
    ELSE BindParams(bind(f, params[i], args[i]), params, args, i + 1)

\* The new frame's parameters are bound and the new state is added.
CallBind(pushed, fn, bs) ==
    AddNewState(SetFrame(pushed, NewState(pushed),
                         BindParams(Frame(pushed.states[NewState(pushed)]),
                                    Fn(pushed, fn).Params, bs, 1)))

CallPush(f, fn, bs) ==
    Only({ CallBind(pushed, fn, bs) : pushed \in {Push(f, NewState(f), fn)} })

CallFork(args, s, instr) ==
    Only({ CallPush(f, instr.fn, args.bs) : f \in {ForkState(args.w, s, NilExpr)} })

\* The functions of the glee package that NewExecutor registers execInt for.
IntHandlers ==
    {"Byte", "Int", "Int8", "Int16", "Int32", "Int64", "Uint", "Uint8", "Uint16",
     "Uint32", "Uint64"}

\* The handlers registered by NewExecutor, then the call of a program
\* function, which forks.
executeCallInstr(w, s, instr) ==
    IF instr.path = GleePath /\ instr.fn = "Assert" THEN execAssert(w, s, instr)
    ELSE IF instr.path = GleePath /\ instr.fn \in IntHandlers THEN execInt(w, s, instr)
    ELSE IF instr.path = GleePath /\ instr.fn = "String" THEN execString(w, s, instr)
    ELSE Only({ CallFork(args, s, instr) : args \in {EvalAll(w, s, instr.args, 1, << >>)} })

\* A defer that marks the state failed before it returns its error.
executeDeferFailed(w, s, instr) ==
    Raise([w EXCEPT !.states[s].status = ExecutionStatusFailed],
          "glee.Executor: defer is not supported")

executeDeferInstr(w, s, instr) == Raise(w, "glee.Executor: defer is not supported")

executeMakeChanInstr(w, s, instr) == Raise(w, "glee.Executor: channels are not supported")

executeMakeMapInstr(w, s, instr) ==
    Raise(w, "glee.Executor: map instantiation is not supported")

executeTypeAssertInstr(w, s, instr) ==
    Raise(w, "glee.Executor: type assertion is not supported")

FieldAddrOf(w, s, instr, base) ==
    IF ~IsConstantExpr(base) THEN Raise(w, GoPanic)
    ELSE BindInFrame(w, s, instr.name,
                     NewBinaryExpr(w.mem, "ADD", base,
                                   NewConstantExpr(instr.offset, PointerWidth)))

executeFieldAddrInstr(w, s, instr) ==
    Only({ FieldAddrOf(w, s, instr, base) : base \in {Eval(w, s, instr.X).b} })

executeJumpInstr(w, s, instr) ==
    SetFrame(w, s, jump(Frame(w.states[s]), BlockSuccs(w, Frame(w.states[s]))[1]))

\* One call of e.Solver.Solve: "sat", "unsat", or "error" when this is the
\* call the solver fails.
\* e.Solver.Solve: a call on the nil Solver of an executor that has none
\* installed is a Go panic.
SolveCall(w, constraints) ==
    IF ~w.solver THEN "panic"
    ELSE IF w.failAt = w.solves + 1 THEN "error"
    ELSE IF Solve(w.mem, constraints) THEN "sat"
    ELSE "unsat"

CountSolve(w) == [w EXCEPT !.solves = @ + 1]

\* The forked child is placed at the successor block and added to the
\* searcher.
JumpForked(f, target) ==
    AddNewState(SetFrame(f, NewState(f), jump(Frame(f.states[NewState(f)]), target)))

\* The fork of one side of an If: the child gets the condition.
ForkBranch(w, s, cond, succ) ==
    Only({ JumpForked(f, BlockSuccs(w, Frame(w.states[s]))[succ]) :
              f \in {ForkState(w, s, cond)} })

\* The true side, given the solver's answer r2.
IfTrue(w, s, r2) ==
    IF r2 = "panic" THEN Raise([w EXCEPT !.ifrec.trueSat = r2], GoPanic)
    ELSE IF r2 = "error" THEN Raise([w EXCEPT !.ifrec.trueSat = r2], ErrSolverTimeout)
    ELSE IF r2 = "sat"
    THEN [ForkBranch(w, s, w.ifrec.cond, 1) EXCEPT !.ifrec.trueSat = r2,
                                                   !.ifrec.trueChild = Len(w.states) + 1]
    ELSE [w EXCEPT !.ifrec.trueSat = r2]

IfSolveTrue(w, s) ==
    IF w.err # "" THEN w
    ELSE Only({ IfTrue(CountSolve(w), s, r2) :
                   r2 \in {SolveCall(w, Append(w.ifrec.constraints, w.ifrec.cond))} })

\* The false side, given the solver's answer r1.
IfFalse(w, s, r1) ==
    IF r1 = "panic" THEN Raise([w EXCEPT !.ifrec.falseSat = r1], GoPanic)
    ELSE IF r1 = "error" THEN Raise([w EXCEPT !.ifrec.falseSat = r1], ErrSolverTimeout)
    ELSE IF r1 = "sat"
    THEN [ForkBranch(w, s, NewNotExpr(w.ifrec.cond), 2) EXCEPT
             !.ifrec.falseSat = r1, !.ifrec.falseChild = Len(w.states) + 1]
    ELSE [w EXCEPT !.ifrec.falseSat = r1]

IfSolveFalse(w, s) ==
    Only({ IfFalse(CountSolve(w), s, r1) :
              r1 \in {SolveCall(w, Append(w.ifrec.constraints, NewNotExpr(w.ifrec.cond)))} })

IfCond(w, s, cond) ==
    IF ~IsExpr(cond) THEN Raise(w, GoPanic)
    ELSE Only({ IfSolveTrue(w1, s) :
                   w1 \in {IfSolveFalse([w EXCEPT !.ifrec =
                                            [state |-> s, cond |-> cond,
                                             constraints |-> w.states[s].constraints,
                                             falseSat |-> "none", trueSat |-> "none",
                                             falseChild |-> 0, trueChild |-> 0]], s)} })

executeIfInstr(w, s, instr) ==
    Only({ IfCond(w, s, cond) : cond \in {Eval(w, s, instr.Cond).b} })

\* The new state added without its top frame being popped.
ReturnNoPop(f) == AddNewState(f)


\* Fork, pop the callee's frame off the new state, add the new state.
ReturnPop(f) == AddNewState(Pop(f, NewState(f)))

ReturnFork(w, s) == Only({ ReturnPop(f) : f \in {ForkState(w, s, NilExpr)} })

\* The results are bound to the call instruction in the caller's frame.
ReturnBind(results, s, depth, frame, call) ==
    IF call.op # "Call" \/ Len(results.bs) = 0 THEN results.w
    ELSE [results.w EXCEPT !.states[s].stack[depth] =
             bind(frame, call.name,
                  IF Len(results.bs) = 1 THEN results.bs[1]
                  ELSE TupleBinding(results.bs))]

ReturnResults(results, s) ==
    Only({ ReturnFork(bound, s) :
              bound \in {ReturnBind(results, s, Len(results.w.states[s].stack) - 1,
                                    CallerFrame(results.w.states[s]),
                                    FrameInstr(results.w, CallerFrame(results.w.states[s])))} })

executeReturnInstr(w, s, instr) ==
    IF ~HasCallerFrame(w.states[s]) THEN w
    ELSE Only({ ReturnResults(results, s) :
                   results \in {EvalAll(w, s, instr.Results, 1, << >>)} })

LoadFound(w, s, instr, addr, found) ==
    IF found.array = 0 THEN Raise(w, GoPanic)
    ELSE BindInFrame(w, s, instr.name,
                     ArraySelect(w.mem, found.array, newSubExpr(w.mem, addr, found.base),
                                 instr.width, IsLittleEndian))

LoadAddr(w, s, instr, addr) ==
    IF ~IsConstantExpr(addr) THEN Raise(w, GoPanic)
    ELSE Only({ LoadFound(w, s, instr, addr, found) :
                   found \in {findAllocContainingAddr(w.mem, w.states[s], addr)} })

\* Loads of boolean and integer types, for which isExprType holds.
executeUnOpMulInstr(w, s, instr) ==
    Only({ LoadAddr(w, s, instr, addr) : addr \in {Eval(w, s, instr.X).b} })

\* A nil address is dereferenced by Store and Copy, a Go panic.
StoreValue(w, s, addr, val) ==
    IF addr.kind # "nil" /\ ~IsConstantExpr(addr)
    THEN Raise(w, "cannot store using symbolic addresses")
    ELSE IF val.kind \notin {"array"} \cup ExprKinds THEN Raise(w, "unexpected store value")
    ELSE IF addr.kind = "nil" THEN Raise(w, GoPanic)
    ELSE IF val.kind = "array" THEN StateCopy(w, s, addr, val.ref)
    ELSE StateStore(w, s, addr, val)

StoreArgs(e, s) == StoreValue(e.w, s, e.bs[1], e.bs[2])

executeStoreInstr(w, s, instr) ==
    Only({ StoreArgs(e, s) : e \in {EvalAll(w, s, << instr.Addr, instr.Val >>, 1, << >>)} })

RECURSIVE SliceBytes(_, _, _, _, _)
SliceBytes(mem, array, x, lo, i) ==
    IF i >= mem.arrays[array].Size THEN mem
    ELSE SliceBytes(storeByte(mem, array, NewConstantExpr64(i),
                              selectByte(mem, x, NewConstantExpr64(i + lo.Value))),
                    array, x, lo, i + 1)

SliceInto(w, s, instr, x, lo, n) ==
    BindInFrame([w EXCEPT !.mem = SliceBytes(n.mem, n.ref, x.ref, lo, 0)], s, instr.name,
                ArrayBinding(n.ref))

SliceRange(w, s, instr, x, lo, hi) ==
    IF hi.Value > w.mem.arrays[x.ref].Size \/ lo.Value > w.mem.arrays[x.ref].Size
    THEN [w EXCEPT !.states[s].status = ExecutionStatusPanicked,
                   !.states[s].reason = "slice bounds out of range"]
    ELSE IF hi.Value < lo.Value THEN Raise(w, GoPanic)
    ELSE Only({ SliceInto(w, s, instr, x, lo, n) :
                   n \in {NewArray(w.mem, 0, hi.Value - lo.Value)} })

SliceArgs(w, s, instr, x, low, high) ==
    IF x.kind # "array" THEN Raise(w, GoPanic)
    ELSE IF low.kind # "nil" /\ ~IsConstantExpr(low)
    THEN Raise(w, "glee.Executor: string slice low index must be a constant expression")
    ELSE IF high.kind # "nil" /\ ~IsConstantExpr(high)
    THEN Raise(w, "glee.Executor: string slice high index must be a constant expression")
    ELSE SliceRange(w, s, instr, x,
                    IF low.kind = "nil" THEN NewConstantExpr64(0) ELSE low,
                    IF high.kind = "nil" THEN NewConstantExpr64(w.mem.arrays[x.ref].Size)
                    ELSE high)

\* A slice out of bounds reported as an error of the call.
executeSliceInstrError(w, s, instr) == Raise(w, "slice bounds out of range")

executeSliceInstrString(w, s, instr) ==
    Only({ SliceArgs(w, s, instr, e.bs[1], e.bs[2], e.bs[3]) :
              e \in {EvalAll(w, s, << instr.X, instr.Low, instr.High >>, 1, << >>)} })

\* The type switch of executeNextInstruction.
executeInstr(w, s, instr) ==
    CASE instr.op = "Alloc" -> executeAllocInstr(w, s, instr)
      [] instr.op = "BinOp" -> executeBinOpInstr(w, s, instr)
      [] instr.op = "Call" -> executeCallInstr(w, s, instr)
      [] instr.op = "Defer" -> executeDeferInstr(w, s, instr)
      [] instr.op = "FieldAddr" -> executeFieldAddrInstr(w, s, instr)
      [] instr.op = "Go" -> Raise(w, "goroutines are not currently supported")
      [] instr.op = "If" -> executeIfInstr(w, s, instr)
      [] instr.op = "Jump" -> executeJumpInstr(w, s, instr)
      [] instr.op = "MakeChan" -> executeMakeChanInstr(w, s, instr)
      [] instr.op = "MakeMap" -> executeMakeMapInstr(w, s, instr)
      [] instr.op = "Return" -> executeReturnInstr(w, s, instr)
      [] instr.op = "Slice" -> executeSliceInstrString(w, s, instr)
      [] instr.op = "Store" -> executeStoreInstr(w, s, instr)
      [] instr.op = "TypeAssert" -> executeTypeAssertInstr(w, s, instr)
      [] instr.op = "UnOp" -> executeUnOpMulInstr(w, s, instr)
      [] OTHER -> Raise(w, "illegal instruction")

\* executeNextInstruction: advance to the next instruction, popping frames
\* that have none left, and execute it.
RECURSIVE executeNextInstruction(_, _)
ExecuteAdvanced(advanced, s) ==
    IF StateInstr(advanced, s).op # "nil"
    THEN executeInstr([advanced EXCEPT !.executed = @ + 1, !.pre = advanced.states[s]], s,
                      StateInstr(advanced, s))
    ELSE Only({ executeNextInstruction(popped, s) : popped \in {Pop(advanced, s)} })

executeNextInstruction(w, s) ==
    IF ~HasFrame(w.states[s]) THEN Raise(w, ErrNoInstructionAvailable)
    ELSE Only({ ExecuteAdvanced(advanced, s) :
                   advanced \in {SetFrame(w, s, NextInstr(w, Frame(w.states[s])))} })

\* The loop of ExecuteNextState on the selected state.
RECURSIVE executeLoop(_, _)
LoopStep(w1, s) ==
    IF w1.err = ErrNoInstructionAvailable THEN Raise(w1, "")
    ELSE IF w1.err # "" THEN w1
    ELSE IF Done(w1, s) THEN w1
    ELSE executeLoop(w1, s)

executeLoop(w, s) == Only({ LoopStep(w1, s) : w1 \in {executeNextInstruction(w, s)} })

(***************************************************************************)
(* The state machine.  prog, states, mem, searcher and stateIDSeq are the  *)
(* executor and the objects it owns.  last records the most recent call of *)
(* ExecuteNextState: the state it selected (0: none), that state as it was *)
(* before the call, the error returned, the number of instructions that    *)
(* were executed, the state as it was when it had advanced to the last of  *)
(* them (pre), the If that was executed, the frames that were popped, and  *)
(* the parity of the number of calls made.  ran is the set of states that *)
(* calls have selected, dead the set of states whose If found both sides   *)
(* unsatisfiable.  crashed holds once a call has ended in a Go panic,      *)
(* which ends the process.                                                 *)
(***************************************************************************)
VARIABLES prog, states, mem, searcher, stateIDSeq, last, ran, dead, crashed

vars == << prog, states, mem, searcher, stateIDSeq, last, ran, dead, crashed >>

\* The searchers an executor is run with.  NewExecutor installs a
\* depth-first searcher holding the root; a caller that installs another
\* searcher adds the root state to it.
Searchers ==
    { NewDFSSearcher, NewBFSSearcher, NewRandomSearcher, NewRandomPathSearcher,
      NewMultiSearcher(<< NewDFSSearcher, NewBFSSearcher >>) }

NoCall == [state |-> 0, err |-> "", executed |-> 0, before |-> [id |-> 0],
           pre |-> [id |-> 0], again |-> FALSE, wasDead |-> FALSE, ifrec |-> NoIf,
           pops |-> << >>, odd |-> FALSE, osArch |-> TRUE, solver |-> TRUE]

World(p, sts, m, srch, seq, failAt, solver) ==
    [prog |-> p, states |-> sts, mem |-> m, searcher |-> srch, stateIDSeq |-> seq,
     err |-> "", executed |-> 0, solves |-> 0, failAt |-> failAt, ifrec |-> NoIf,
     pre |-> [id |-> 0], pops |-> << >>, solver |-> solver]

\* NewExecutionState followed by root.id = e.nextStateID().
NewExecutionState(p, srch) ==
    Push(World(p, << [id |-> 1, parent |-> 0, children |-> << >>, stack |-> << >>,
                      status |-> ExecutionStatusRunning, reason |-> "", heap |-> << >>,
                      constraints |-> << >>, allocs |-> << >>] >>,
               EmptyMem, srch, 1, 0, TRUE), 1, "main")

NewExecutor(p, srch) ==
    \E w \in {NewExecutionState(p, srch)} :
        /\ prog = p
        /\ states = w.states
        /\ mem = w.mem
        /\ searcher = AddState(srch, 1)
        /\ stateIDSeq = 1
        /\ ran = {}
        /\ dead = {}
        /\ crashed = FALSE

Init ==
    \E p \in Returning, srch \in Searchers :
        \E w \in {NewExecutionState(p, srch)} :
            /\ prog = p
            /\ states = w.states
            /\ mem = w.mem
            /\ searcher = AddState(srch, 1)
            /\ stateIDSeq = 1
            /\ last = NoCall
            /\ ran = {}
            /\ dead = {}
            /\ crashed = FALSE

\* The selected state has been run: the executor's objects are as the loop
\* left them.
Executed(s, w) ==
    /\ states' = w.states
    /\ mem' = w.mem
    /\ searcher' = w.searcher
    /\ stateIDSeq' = w.stateIDSeq
    /\ last' = [state |-> s, err |-> w.err, executed |-> w.executed,
                before |-> states[s], pre |-> w.pre, again |-> s \in ran,
                wasDead |-> s \in dead, ifrec |-> w.ifrec, pops |-> w.pops,
                odd |-> ~last.odd, osArch |-> TRUE, solver |-> w.solver]
    /\ ran' = ran \cup {s}
    /\ dead' = IF /\ w.ifrec.state # 0
                  /\ w.ifrec.falseSat = "unsat"
                  /\ w.ifrec.trueSat = "unsat"
               THEN dead \cup {s} ELSE dead
    /\ crashed' = (w.err = GoPanic)
    /\ UNCHANGED prog

\* One call of Executor.ExecuteNextState.  r is what the random source
\* yields to the searcher, failAt the Solve call that the solver fails;
\* osArch is isValidOSArch(e.OS, e.Arch) and solver e.Solver != nil, for the
\* fields of the executor that its user sets.
ExecuteNextState(r, failAt, osArch, solver) ==
    /\ ~crashed
    /\ IF ~osArch
       THEN /\ last' = [NoCall EXCEPT !.err = ErrInvalidOSArch, !.odd = ~last.odd,
                                      !.osArch = osArch, !.solver = solver]
            /\ UNCHANGED << prog, states, mem, searcher, stateIDSeq, ran, dead, crashed >>
       ELSE \E sel \in {SelectState(searcher, r)} :
               IF sel.state = 0
               THEN /\ searcher' = sel.searcher
                    /\ last' = [NoCall EXCEPT !.err = ErrNoStateAvailable,
                                              !.odd = ~last.odd, !.solver = solver]
                    /\ UNCHANGED << prog, states, mem, stateIDSeq, ran, dead, crashed >>
               ELSE \E w \in {executeLoop(World(prog, states, mem, sel.searcher,
                                                stateIDSeq, failAt, solver),
                                          sel.state)} :
                       Executed(sel.state, w)

\* The executor as NewExecutor and the command set it up: the OS and
\* architecture of the runtime, and a solver.
Next ==
    \E r \in RandChoices(searcher, states), failAt \in 0..2 :
        ExecuteNextState(r, failAt, TRUE, TRUE)

Spec == Init /\ [][Next]_vars

\* The driver calls ExecuteNextState again and again.
FairSpec == Spec /\ WF_vars(Next)

\* The executor with any setting of its OS, Arch and Solver fields.
ConfigNext ==
    \E r \in RandChoices(searcher, states), failAt \in 0..2, osArch \in BOOLEAN,
       solver \in BOOLEAN :
        ExecuteNextState(r, failAt, osArch, solver)

ConfigSpec == Init /\ [][ConfigNext]_vars

(***************************************************************************)
(* ExecuteNextState instruction by instruction.  A call selects a state    *)
(* (BeginCall) and then runs its loop, one executeNextInstruction for each *)
(* step (StepCall), until the loop breaks or returns.  last is the call in *)
(* progress: the state it selected, the error it returned or will return,  *)
(* whether it is still in its loop (pending), and the Solve calls made.    *)
(***************************************************************************)
StepPrograms == { p \in 1..Len(Programs) : Programs[p] \in {ProgIf, ProgCall, ProgLoop} }

NoStep == [state |-> 0, err |-> "", pending |-> FALSE, failAt |-> 0, solves |-> 0]

StepInit ==
    \E p \in StepPrograms, srch \in Searchers :
        /\ NewExecutor(p, srch)
        /\ last = NoStep

\* The call up to its loop.
BeginCall(r, failAt) ==
    /\ ~crashed
    /\ ~last.pending
    /\ \E sel \in {SelectState(searcher, r)} :
          /\ searcher' = sel.searcher
          /\ last' = IF sel.state = 0 THEN [NoStep EXCEPT !.err = ErrNoStateAvailable]
                     ELSE [NoStep EXCEPT !.state = sel.state, !.pending = TRUE,
                                         !.failAt = failAt]
          /\ ran' = IF sel.state = 0 THEN ran ELSE ran \cup {sel.state}
    /\ UNCHANGED << prog, states, mem, stateIDSeq, dead, crashed >>

\* One turn of the loop: executeNextInstruction, then the tests that end the
\* loop.
StepCall ==
    /\ last.pending
    /\ \E w \in {executeNextInstruction(
                     [World(prog, states, mem, searcher, stateIDSeq, last.failAt, TRUE)
                         EXCEPT !.solves = last.solves], last.state)} :
          /\ states' = w.states
          /\ mem' = w.mem
          /\ searcher' = w.searcher
          /\ stateIDSeq' = w.stateIDSeq
          /\ last' = [last EXCEPT
                         !.err = IF w.err = ErrNoInstructionAvailable THEN "" ELSE w.err,
                         !.pending = (w.err = "" /\ ~Done(w, last.state)),
                         !.solves = w.solves]
          /\ crashed' = (w.err = GoPanic)
    /\ UNCHANGED << prog, ran, dead >>

StepNext ==
    \/ \E r \in RandChoices(searcher, states), failAt \in 0..2 : BeginCall(r, failAt)
    \/ StepCall

StepSpec == StepInit /\ [][StepNext]_vars

\* A call that has been made goes on running: nothing suspends it.
StepFairSpec == StepSpec /\ WF_vars(StepCall)

(***************************************************************************)
(* Arrays on their own (unnamed/part_002).  A driver holds a symbolic      *)
(* array of two bytes and a target array, and calls Array.Store and        *)
(* Array.Select on the target and on the arrays that Store returns, as     *)
(* TestArray does.  mem is the store of arrays and last the call made; a   *)
(* failing assert is a Go panic and ends the driver (crashed).  The other  *)
(* variables have no part in it.                                           *)
(***************************************************************************)
TargetSize == 9

MaxStores == 1

Widths == {WidthBool, Width8, Width16, Width32, Width64}

\* The symbolic array is the object 1 of the store, the target the object 2.
ArrayMem == NewArray(NewArray(EmptyMem, 1, 2).mem, 2, TargetSize).mem

Sym(i) == NewSelectExpr(1, NewConstantExpr64(i))

\* The values that are stored: constants and symbolic expressions of every
\* width, among them concatenations whose parts are and are not whole bytes.
ArrayValues ==
    { NewBoolConstantExpr(TRUE),
      NewBinaryExpr(ArrayMem, "EQ", NewConstantExpr(1, Width8), Sym(0)),
      NewConstantExpr(171, Width8),
      Sym(0),
      NewConstantExpr(43981, Width16),
      NewConcatExpr(Sym(1), Sym(0)),
      NewCastExpr(Sym(0), Width16, FALSE),
      NewConcatExpr(NewExtractExpr(NewCastExpr(Sym(1), Width16, FALSE), 0, 12),
                    NewExtractExpr(Sym(0), 0, 4)),
      NewConstantExpr32(716950749),
      NewCastExpr(Sym(1), Width32, TRUE),
      NewConcatExpr(NewConcatExpr(Sym(1), Sym(0)), NewConcatExpr(Sym(0), Sym(1))),
      NewConstantExpr64(716950749),
      NewCastExpr(Sym(0), Width64, FALSE),
      NewBinaryExpr(ArrayMem, "ADD", NewCastExpr(Sym(1), Width64, FALSE),
                    NewConstantExpr64(1)) }

ArrayIndexes == {0, 1, TargetSize - 1}

\* The asserts of NewExtractExpr along its recursion: width > 0 and
\* offset+width <= kw.  The arithmetic is unsigned: a negative number here
\* stands for the wrapped value 2^64 more.
RECURSIVE NewExtractExprPanics(_, _, _)
NewExtractExprPanics(expr, offset, width) ==
    IF width = 0 \/ offset + width < 0 \/ offset + width > ExprWidth(expr) THEN TRUE
    ELSE IF width = ExprWidth(expr) \/ expr.kind # "concat" THEN FALSE
    ELSE IF offset >= ExprWidth(expr.LSB)
    THEN NewExtractExprPanics(expr.MSB, offset - ExprWidth(expr.LSB), width)
    ELSE IF offset + width <= ExprWidth(expr.LSB)
    THEN NewExtractExprPanics(expr.LSB, offset, width)
    ELSE \/ NewExtractExprPanics(expr.MSB, 0, width - ExprWidth(expr.LSB) + offset)
         \/ NewExtractExprPanics(expr.LSB, offset, ExprWidth(expr.MSB) - offset)

\* Array.Store panics: an assert of storeByte or of NewExtractExpr fails.
StorePanics(m, a, offset0, value, isLittleEndian) ==
    LET offset == newZExtExpr(offset0, Width64)
        n == ExprWidth(value) \div 8
    IN  IF ExprWidth(value) = WidthBool THEN ~storeByteValid(m, a, offset)
        ELSE \E i \in 0..(n - 1) :
                \/ ~storeByteValid(m, a,
                      NewBinaryExpr(m, "ADD", offset,
                          NewConstantExpr64(IF isLittleEndian THEN i ELSE n - i - 1)))
                \/ NewExtractExprPanics(value, i * 8, Width8)

\* The array the next Store is called on.
ArrayHeld == IF last.op = "store" THEN last.array ELSE 2

ArrayInit ==
    /\ prog = 0
    /\ states = << >>
    /\ mem \in {ArrayMem, zero(ArrayMem, 2)}
    /\ searcher = NewDFSSearcher
    /\ stateIDSeq = 0
    /\ last = [op |-> "none"]
    /\ ran = {}
    /\ dead = {}
    /\ crashed = FALSE

\* a.Store(NewConstantExpr(index, 32), value, isLittleEndian)
ArrayStoreCall(index, value, isLittleEndian) ==
    /\ ~crashed
    /\ last.op \in {"none", "store"}
    /\ Len(mem.arrays) < 2 + MaxStores
    /\ IF StorePanics(mem, ArrayHeld, NewConstantExpr32(index), value, isLittleEndian)
       THEN /\ last' = [op |-> "store", array |-> 0, index |-> index, value |-> value,
                        isLittleEndian |-> isLittleEndian, panicked |-> TRUE]
            /\ crashed' = TRUE
            /\ UNCHANGED mem
       ELSE \E st \in {ArrayStore(mem, ArrayHeld, NewConstantExpr32(index), value,
                                  isLittleEndian)} :
               /\ mem' = st.mem
               /\ last' = [op |-> "store", array |-> st.ref, index |-> index,
                           value |-> value, isLittleEndian |-> isLittleEndian,
                           panicked |-> FALSE]
               /\ UNCHANGED crashed
    /\ UNCHANGED << prog, states, searcher, stateIDSeq, ran, dead >>

\* The constant that a Select assembles stays below 2^30, the range of the
\* model's numbers: of the constant bytes it starts with, the fourth is
\* below 64 and the later ones are 0.
SelectFits(m, a, index, width, isLittleEndian) ==
    LET n == width \div 8
        byte(k) == selectByte(m, a, NewConstantExpr64(
                       index + (IF isLittleEndian THEN k ELSE n - k - 1)))
    IN  \A k \in 3..(n - 1) :
           (\A j \in 0..k : IsConstantExpr(byte(j)))
              => byte(k).Value < (IF k = 3 THEN 64 ELSE 1)

\* a.Select(NewConstantExpr(index, 32), width, isLittleEndian) on the array
\* that the last Store returned.
ArraySelectCall(index, width, isLittleEndian) ==
    /\ ~crashed
    /\ last.op = "store"
    /\ SelectFits(mem, last.array, index, width, isLittleEndian)
    /\ last' = [op |-> "select", array |-> last.array, index |-> index, width |-> width,
                isLittleEndian |-> isLittleEndian, store |-> last,
                result |-> ArraySelect(mem, last.array, NewConstantExpr32(index), width,
                                       isLittleEndian)]
    /\ UNCHANGED << prog, states, mem, searcher, stateIDSeq, ran, dead, crashed >>

ArrayNext ==
    \/ \E index \in ArrayIndexes, value \in ArrayValues, isLittleEndian \in BOOLEAN :
          ArrayStoreCall(index, value, isLittleEndian)
    \/ \E index \in ArrayIndexes, width \in Widths, isLittleEndian \in BOOLEAN :
          ArraySelectCall(index, width, isLittleEndian)

ArraySpec == ArrayInit /\ [][ArrayNext]_vars

(***************************************************************************)
(* Update chains (unnamed/part_002).  A driver makes byte writes with      *)
(* Array.Store, at constant indexes and at a symbolic index, into a small  *)
(* array and into the arrays that Store returned before, and reads bytes   *)
(* with Array.Select.  last.writes[a] is the history of the array a: the   *)
(* writes that made it, oldest first.                                      *)
(***************************************************************************)
ChainSize == 2

MaxWrites == 2

\* The store of arrays: the symbolic array 1 and the array 2 that is written.
ChainMem == NewArray(NewArray(EmptyMem, 1, 2).mem, 2, ChainSize).mem

\* The indexes written: every constant index and a symbolic byte.
ChainIndexes == {NewConstantExpr64(i) : i \in 0..(ChainSize - 1)} \cup {Sym(0)}

\* The bytes written.
ChainValues == {NewConstantExpr(1, Width8), NewConstantExpr(2, Width8)}

\* The arrays the driver holds: array 2 and every array a Store returned.
ChainArrays == 2..Len(mem.arrays)

\* The writes by which zero() fills an array of ChainSize bytes.
ZeroWrites ==
    [i \in 1..ChainSize |->
        [Index |-> NewConstantExpr64(i - 1), Value |-> NewConstantExpr(0, Width8)]]

ChainInit ==
    /\ prog = 0
    /\ states = << >>
    /\ \/ mem = ChainMem /\ last = [op |-> "none", writes |-> << << >>, << >> >>]
       \/ mem = zero(ChainMem, 2) /\ last = [op |-> "none", writes |-> << << >>, ZeroWrites >>]
    /\ searcher = NewDFSSearcher
    /\ stateIDSeq = 0
    /\ ran = {}
    /\ dead = {}
    /\ crashed = FALSE

\* a.Store(index, value, false) of one byte on an array the driver holds.
ChainStoreCall(a, index, value) ==
    /\ last.op # "select"
    /\ Len(mem.arrays) < 2 + MaxWrites
    /\ \E st \in {ArrayStore(mem, a, index, value, FALSE)} :
          /\ mem' = st.mem
          /\ last' = [op |-> "store", array |-> st.ref, index |-> index, value |-> value,
                      writes |-> Append(last.writes,
                                   Append(last.writes[a],
                                          [Index |-> newZExtExpr(index, Width64),
                                           Value |-> value]))]
    /\ UNCHANGED << prog, states, searcher, stateIDSeq, ran, dead, crashed >>

\* a.Select(NewConstantExpr64(index), 8, false) on an array the driver holds.
ChainSelectCall(a, index) ==
    /\ last.op = "store"
    /\ last' = [op |-> "select", array |-> a, index |-> index, writes |-> last.writes,
                result |-> ArraySelect(mem, a, NewConstantExpr64(index), Width8, FALSE)]
    /\ UNCHANGED << prog, states, mem, searcher, stateIDSeq, ran, dead, crashed >>

ChainNext ==
    \/ \E a \in ChainArrays, index \in ChainIndexes, value \in ChainValues :
          ChainStoreCall(a, index, value)
    \/ \E a \in ChainArrays, index \in 0..(ChainSize - 1) : ChainSelectCall(a, index)

ChainSpec == ChainInit /\ [][ChainNext]_vars

(***************************************************************************)
(* The specification of the expression constructors: one call of           *)
(* NewBinaryExpr, NewConcatExpr, NewExtractExpr, NewCastExpr or NewNotExpr *)
(* on operands that the constructors themselves have built, as the tests   *)
(* of the expression package make them.  last holds the operands, then the *)
(* call with the expression it returned; a failing assert or a panic of a  *)
(* method of ConstantExpr ends the driver (crashed).                       *)
(***************************************************************************)
BinaryOps ==
    {"ADD", "SUB", "MUL", "UDIV", "SDIV", "UREM", "SREM", "AND", "OR", "XOR", "SHL",
     "LSHR", "ASHR", "EQ", "NE", "ULT", "ULE", "UGT", "UGE", "SLT", "SLE", "SGT", "SGE"}

ExprMem == NewArray(EmptyMem, 1, 2).mem

\* Operands of width 1, 8, 16 and 24: constants, symbolic bytes, and the
\* nodes that the rewrites look into.
ExprOperands ==
    { NewBoolConstantExpr(FALSE),
      NewBoolConstantExpr(TRUE),
      NewBinaryExpr(ExprMem, "EQ", Sym(0), Sym(1)),
      NewBinaryExpr(ExprMem, "EQ", NewBoolConstantExpr(FALSE),
                    NewBinaryExpr(ExprMem, "EQ", Sym(0), Sym(1))),
      NewBinaryExpr(ExprMem, "OR", NewExtractExpr(Sym(0), 0, WidthBool),
                    NewExtractExpr(Sym(1), 0, WidthBool)),
      NewConstantExpr(0, Width8),
      NewConstantExpr(1, Width8),
      NewConstantExpr(128, Width8),
      NewConstantExpr(255, Width8),
      Sym(0),
      Sym(1),
      NewBinaryExpr(ExprMem, "ADD", NewConstantExpr(1, Width8), Sym(0)),
      NewBinaryExpr(ExprMem, "SUB", NewConstantExpr(1, Width8), Sym(0)),
      NewBinaryExpr(ExprMem, "SUB", Sym(0), NewConstantExpr(1, Width8)),
      NewBinaryExpr(ExprMem, "ADD", Sym(0), Sym(1)),
      NewConstantExpr(0, Width16),
      NewConstantExpr(258, Width16),
      NewConstantExpr(16384, Width16),
      NewConcatExpr(Sym(1), Sym(0)),
      NewCastExpr(Sym(0), Width16, FALSE),
      NewCastExpr(Sym(0), Width16, TRUE),
      NewExtractExpr(NewConcatExpr(Sym(1), Sym(0)), 4, Width8),
      NewConcatExpr(Sym(0), NewConcatExpr(Sym(1), Sym(0))),
      NewConcatExpr(NewConcatExpr(Sym(1), Sym(0)), Sym(1)) }

\* The widest expression that is built: its value is kept below 2^30.
MaxWidth == 24

ExtractOffsets == {0, 4, 8, 16}

ExtractWidths == {WidthBool, 4, Width8, 12, Width16}

CastWidths == {WidthBool, Width8, Width16}

\* NewCastExpr panics: the truncation's NewExtractExpr does, or SExt of a
\* constant is asked for a width other than 8, 16, 32 or 64.
NewCastExprPanics(src, width, signed) ==
    IF width <= ExprWidth(src) THEN NewExtractExprPanics(src, 0, width)
    ELSE /\ signed
         /\ IsConstantExpr(src)
         /\ ~(IsStandardWidth(width) /\ IsStandardWidth(src.Width))

(***************************************************************************)
(* The nested constructor calls.  A call is written as the node it would   *)
(* build without simplification; NestedCalls lists, in the order they are  *)
(* made, the calls of NewBinaryExpr, NewConcatExpr, NewExtractExpr and     *)
(* NewCastExpr that the body of one call makes directly.                   *)
(***************************************************************************)
ExtractNode(expr, offset, width) ==
    [kind |-> "extract", Expr |-> expr, Offset |-> offset, Width |-> width]

ConcatNode(msb, lsb) == [kind |-> "concat", MSB |-> msb, LSB |-> lsb]

\* NewIsZeroExpr(other) is one call of NewBinaryExpr.
IsZeroNode(other) == BinaryExpr("EQ", other, NewConstantExpr(0, ExprWidth(other)))

\* inner(outer): the argument is built before the call that takes it.
Nested2(inner, outer) == << inner, outer >>

\* The rewrite of newAddExpr that swaps its operands without looking at
\* them.
newAddExprSwaps(m, lhs0, rhs0) == << BinaryExpr("ADD", rhs0, lhs0) >>

newAddExprCalls(m, lhs0, rhs0) ==
    LET swap == ~IsConstantExpr(lhs0) /\ IsConstantExpr(rhs0)
        lhs == IF swap THEN rhs0 ELSE lhs0
        rhs == IF swap THEN lhs0 ELSE rhs0
    IN  IF ExprWidth(lhs) = WidthBool THEN << BinaryExpr("XOR", lhs, rhs) >>
        ELSE IF IsConstantExpr(lhs) /\ lhs.Value = 0 THEN << >>
        ELSE IF IsConstantExpr(lhs) /\ IsConstantExpr(rhs) THEN << >>
        ELSE IF IsConstantExpr(lhs) /\ IsBinaryOp(rhs, "ADD") /\ IsConstantExpr(rhs.LHS)
        THEN Nested2(BinaryExpr("ADD", lhs, rhs.LHS),
                     BinaryExpr("ADD", NewBinaryExpr(m, "ADD", lhs, rhs.LHS), rhs.RHS))
        ELSE IF IsConstantExpr(lhs) /\ IsBinaryOp(rhs, "SUB") /\ IsConstantExpr(rhs.LHS)
        THEN Nested2(BinaryExpr("ADD", lhs, rhs.LHS),
                     BinaryExpr("SUB", NewBinaryExpr(m, "ADD", lhs, rhs.LHS), rhs.RHS))
        ELSE IF IsBinaryOp(lhs, "ADD") /\ IsConstantExpr(lhs.LHS)
        THEN Nested2(BinaryExpr("ADD", lhs.RHS, rhs),
                     BinaryExpr("ADD", lhs.LHS, NewBinaryExpr(m, "ADD", lhs.RHS, rhs)))
        ELSE IF IsBinaryOp(lhs, "SUB") /\ IsConstantExpr(lhs.LHS)
        THEN Nested2(BinaryExpr("SUB", rhs, lhs.RHS),
                     BinaryExpr("ADD", lhs.LHS, NewBinaryExpr(m, "SUB", rhs, lhs.RHS)))
        ELSE IF IsBinaryOp(rhs, "ADD") /\ IsConstantExpr(rhs.LHS)
        THEN Nested2(BinaryExpr("ADD", lhs, rhs.RHS),
                     BinaryExpr("ADD", rhs.LHS, NewBinaryExpr(m, "ADD", lhs, rhs.RHS)))
        ELSE IF IsBinaryOp(rhs, "SUB") /\ IsConstantExpr(rhs.LHS)
        THEN Nested2(BinaryExpr("SUB", lhs, rhs.RHS),
                     BinaryExpr("ADD", rhs.LHS, NewBinaryExpr(m, "SUB", lhs, rhs.RHS)))
        ELSE << >>

newSubExprCalls(m, lhs, rhs) ==
    IF CompareExpr(m, lhs, rhs) = 0 THEN << >>
    ELSE IF IsConstantExpr(lhs) /\ IsConstantExpr(rhs) THEN << >>
    ELSE IF ExprWidth(lhs) = WidthBool THEN << BinaryExpr("XOR", lhs, rhs) >>
    ELSE IF IsConstantExpr(rhs) /\ ~IsConstantExpr(lhs)
    THEN << BinaryExpr("ADD", ConstSub(NewConstantExpr(0, ExprWidth(rhs)), rhs), lhs) >>
    ELSE IF IsConstantExpr(lhs) /\ IsBinaryOp(rhs, "ADD") /\ IsConstantExpr(rhs.LHS)
    THEN Nested2(BinaryExpr("SUB", lhs, rhs.LHS),
                 BinaryExpr("SUB", NewBinaryExpr(m, "SUB", lhs, rhs.LHS), rhs.RHS))
    ELSE IF IsConstantExpr(lhs) /\ IsBinaryOp(rhs, "SUB") /\ IsConstantExpr(rhs.LHS)
    THEN Nested2(BinaryExpr("SUB", lhs, rhs.LHS),
                 BinaryExpr("ADD", NewBinaryExpr(m, "SUB", lhs, rhs.LHS), rhs.RHS))
    ELSE IF IsBinaryOp(lhs, "ADD") /\ IsConstantExpr(lhs.LHS)
    THEN Nested2(BinaryExpr("SUB", lhs.RHS, rhs),
                 BinaryExpr("ADD", lhs.LHS, NewBinaryExpr(m, "SUB", lhs.RHS, rhs)))
    ELSE IF IsBinaryOp(lhs, "SUB") /\ IsConstantExpr(lhs.LHS)
    THEN Nested2(BinaryExpr("ADD", lhs.RHS, rhs),
                 BinaryExpr("SUB", lhs.LHS, NewBinaryExpr(m, "ADD", lhs.RHS, rhs)))
    ELSE IF IsBinaryOp(rhs, "ADD") /\ IsConstantExpr(rhs.LHS)
    THEN Nested2(BinaryExpr("SUB", lhs, rhs.RHS),
                 BinaryExpr("SUB", NewBinaryExpr(m, "SUB", lhs, rhs.RHS), rhs.LHS))
    ELSE IF IsBinaryOp(rhs, "SUB") /\ IsConstantExpr(rhs.LHS)
    THEN Nested2(BinaryExpr("ADD", lhs, rhs.RHS),
                 BinaryExpr("SUB", NewBinaryExpr(m, "ADD", lhs, rhs.RHS), rhs.LHS))
    ELSE << >>

newEqExprCalls(m, lhs0, rhs0) ==
    LET swap == ~IsConstantExpr(lhs0) /\ IsConstantExpr(rhs0)
        lhs == IF swap THEN rhs0 ELSE lhs0
        rhs == IF swap THEN lhs0 ELSE rhs0
        width == ExprWidth(lhs)
    IN  IF ~IsConstantExpr(lhs) \/ IsConstantExpr(rhs) THEN << >>
        ELSE IF IsBinaryOp(rhs, "EQ") /\ width = WidthBool /\ IsTrue(lhs) THEN << >>
        ELSE IF /\ IsBinaryOp(rhs, "EQ") /\ width = WidthBool
                /\ IsConstantFalse(lhs) /\ IsConstantFalse(rhs.LHS)
        THEN << >>
        ELSE IF IsBinaryOp(rhs, "OR") /\ width = WidthBool /\ IsTrue(lhs) THEN << >>
        ELSE IF IsBinaryOp(rhs, "OR") /\ width = WidthBool /\ ExprWidth(rhs.LHS) = WidthBool
        THEN << IsZeroNode(rhs.LHS), IsZeroNode(rhs.RHS),
                BinaryExpr("AND", NewIsZeroExpr(m, rhs.LHS), NewIsZeroExpr(m, rhs.RHS)) >>
        ELSE IF IsBinaryOp(rhs, "ADD") /\ IsConstantExpr(rhs.LHS)
        THEN Nested2(BinaryExpr("SUB", lhs, rhs.LHS),
                     BinaryExpr("EQ", NewBinaryExpr(m, "SUB", lhs, rhs.LHS), rhs.RHS))
        ELSE IF IsBinaryOp(rhs, "SUB") /\ IsConstantExpr(rhs.LHS)
        THEN Nested2(BinaryExpr("SUB", rhs.LHS, lhs),
                     BinaryExpr("EQ", NewBinaryExpr(m, "SUB", rhs.LHS, lhs), rhs.RHS))
        ELSE IF rhs.kind = "cast"
        THEN LET trunc == ConstZExt(lhs, ExprWidth(rhs.Src))
                 back == IF rhs.Signed THEN ConstSExt(trunc, width)
                         ELSE ConstZExt(trunc, width)
             IN  IF CompareExpr(m, lhs, back) = 0
                 THEN << BinaryExpr("EQ", rhs.Src, trunc) >>
                 ELSE << >>
        ELSE << >>

\* The boolean cases of the shifts and of the comparisons: NewIsZeroExpr of
\* one operand, then the AND or OR that takes it.
newBoolExprCalls(m, op, lhs, rhs, zeroLeft) ==
    IF IsConstantExpr(lhs) /\ IsConstantExpr(rhs) THEN << >>
    ELSE IF ExprWidth(lhs) # WidthBool THEN << >>
    ELSE IF zeroLeft
    THEN Nested2(IsZeroNode(lhs), BinaryExpr(op, NewIsZeroExpr(m, lhs), rhs))
    ELSE Nested2(IsZeroNode(rhs), BinaryExpr(op, lhs, NewIsZeroExpr(m, rhs)))

NewBinaryExprCalls(m, op, lhs, rhs) ==
    CASE op = "ADD" -> newAddExprCalls(m, lhs, rhs)
      [] op = "SUB" -> newSubExprCalls(m, lhs, rhs)
      [] op = "MUL" ->
            IF (IsConstantExpr(lhs) /\ IsConstantExpr(rhs)) \/ ExprWidth(lhs) # WidthBool
            THEN << >>
            ELSE IF IsConstantExpr(rhs) /\ ~IsConstantExpr(lhs)
            THEN << BinaryExpr("AND", rhs, lhs) >>
            ELSE << BinaryExpr("AND", lhs, rhs) >>
      [] op \in {"SHL", "LSHR"} -> newBoolExprCalls(m, "AND", lhs, rhs, FALSE)
      [] op = "EQ" -> newEqExprCalls(m, lhs, rhs)
      [] op = "NE" ->
            Nested2(BinaryExpr("EQ", lhs, rhs),
                    BinaryExpr("EQ", NewConstantExpr(0, WidthBool),
                               NewBinaryExpr(m, "EQ", lhs, rhs)))
      [] op = "ULT" -> newBoolExprCalls(m, "AND", lhs, rhs, TRUE)
      [] op = "ULE" -> newBoolExprCalls(m, "OR", lhs, rhs, TRUE)
      [] op = "SLT" -> newBoolExprCalls(m, "AND", lhs, rhs, FALSE)
      [] op = "SLE" -> newBoolExprCalls(m, "OR", lhs, rhs, FALSE)
      [] op = "UGT" -> newBoolExprCalls(m, "AND", rhs, lhs, TRUE)
      [] op = "UGE" -> newBoolExprCalls(m, "OR", rhs, lhs, TRUE)
      [] op = "SGT" -> newBoolExprCalls(m, "AND", rhs, lhs, FALSE)
      [] op = "SGE" -> newBoolExprCalls(m, "OR", rhs, lhs, FALSE)
      [] OTHER -> << >>

NewConcatExprCalls(msb, lsb) ==
    IF IsConstantExpr(msb) /\ IsConstantExpr(lsb) THEN << >>
    ELSE IF /\ msb.kind = "extract"
            /\ lsb.kind = "extract"
            /\ msb.Expr = lsb.Expr
            /\ lsb.Offset + lsb.Width = msb.Offset
         THEN << ExtractNode(msb.Expr, lsb.Offset, msb.Width + lsb.Width) >>
    ELSE << >>

\* A call whose assert fails makes no call; an argument that a panicking
\* call would have built is not built, and the call that takes it is not made.
NewExtractExprCalls(expr, offset, width) ==
    LET kw == ExprWidth(expr)
    IN  IF width = 0 \/ offset + width < 0 \/ offset + width > kw THEN << >>
        ELSE IF width = kw \/ IsConstantExpr(expr) \/ expr.kind # "concat" THEN << >>
        ELSE IF offset >= ExprWidth(expr.LSB)
        THEN << ExtractNode(expr.MSB, offset - ExprWidth(expr.LSB), width) >>
        ELSE IF offset + width <= ExprWidth(expr.LSB)
        THEN << ExtractNode(expr.LSB, offset, width) >>
        ELSE LET msbw == width - ExprWidth(expr.LSB) + offset
                 lsbw == ExprWidth(expr.MSB) - offset
             IN  IF NewExtractExprPanics(expr.MSB, 0, msbw)
                 THEN << ExtractNode(expr.MSB, 0, msbw) >>
                 ELSE IF NewExtractExprPanics(expr.LSB, offset, lsbw)
                 THEN << ExtractNode(expr.MSB, 0, msbw), ExtractNode(expr.LSB, offset, lsbw) >>
                 ELSE << ExtractNode(expr.MSB, 0, msbw),
                         ExtractNode(expr.LSB, offset, lsbw),
                         ConcatNode(NewExtractExpr(expr.MSB, 0, msbw),
                                    NewExtractExpr(expr.LSB, offset, lsbw)) >>

NewCastExprCalls(src, width) ==
    IF width < ExprWidth(src) THEN << ExtractNode(src, 0, width) >> ELSE << >>

NestedCalls(m, call) ==
    CASE call.kind = "binary" -> NewBinaryExprCalls(m, call.Op, call.LHS, call.RHS)
      [] call.kind = "concat" -> NewConcatExprCalls(call.MSB, call.LSB)
      [] call.kind = "extract" -> NewExtractExprCalls(call.Expr, call.Offset, call.Width)
      [] call.kind = "cast" -> NewCastExprCalls(call.Src, call.Width)
      [] OTHER -> << >>

\* The most constructor calls, nested ones included, that one call is
\* followed through.
MaxCalls == 12

\* The budget that is left of n calls once every call of the sequence has
\* run with all the calls nested in it; -1 if the budget runs out first.
RECURSIVE CallsLeft(_, _, _)
CallsLeft(m, n, calls) ==
    IF calls = << >> THEN n
    ELSE IF n = 0 THEN -1
    ELSE LET left == CallsLeft(m, n - 1, NestedCalls(m, Head(calls)))
         IN  IF left < 0 THEN -1 ELSE CallsLeft(m, left, Tail(calls))

\* The number of constructor calls that one call makes, itself included;
\* MaxCalls + 1 if it is still running after MaxCalls.
CallCount(m, call) ==
    LET left == CallsLeft(m, MaxCalls, << call >>)
    IN  IF left < 0 THEN MaxCalls + 1 ELSE MaxCalls - left


ExprInit ==
    /\ prog = 0
    /\ states = << >>
    /\ mem = ExprMem
    /\ searcher = NewDFSSearcher
    /\ stateIDSeq = 0
    /\ \E x \in ExprOperands, y \in ExprOperands : last = [op |-> "none", x |-> x, y |-> y]
    /\ ran = {}
    /\ dead = {}
    /\ crashed = FALSE

\* The constructor returned expr, or panicked.
ExprReturn(call, panics, expr) ==
    /\ last.op = "none"
    /\ last' = IF panics THEN [call EXCEPT !.op = "panic"]
               ELSE [call EXCEPT !.result = expr]
    /\ crashed' = panics
    /\ UNCHANGED << prog, states, mem, searcher, stateIDSeq, ran, dead >>

\* NewBinaryExpr(op, x, y), on operands of one width.
BinaryCall(op) ==
    /\ last.op = "none"
    /\ ExprWidth(last.x) = ExprWidth(last.y)
    /\ ExprReturn([op |-> "NewBinaryExpr", naive |-> BinaryExpr(op, last.x, last.y),
                   result |-> NilExpr],
                  NewBinaryExprPanics(op, last.x, last.y),
                  NewBinaryExpr(mem, op, last.x, last.y))

\* NewConcatExpr(x, y)
ConcatCall ==
    /\ last.op = "none"
    /\ ExprWidth(last.x) + ExprWidth(last.y) <= MaxWidth
    /\ ExprReturn([op |-> "NewConcatExpr",
                   naive |-> [kind |-> "concat", MSB |-> last.x, LSB |-> last.y],
                   result |-> NilExpr],
                  FALSE,
                  NewConcatExpr(last.x, last.y))

\* NewExtractExpr(x, offset, width)
ExtractCall(offset, width) ==
    /\ last.op = "none"
    /\ ExprReturn([op |-> "NewExtractExpr",
                   naive |-> [kind |-> "extract", Expr |-> last.x, Offset |-> offset,
                              Width |-> width],
                   result |-> NilExpr],
                  NewExtractExprPanics(last.x, offset, width),
                  NewExtractExpr(last.x, offset, width))

\* NewCastExpr(x, width, signed)
CastCall(width, signed) ==
    /\ last.op = "none"
    /\ ExprReturn([op |-> "NewCastExpr",
                   naive |-> [kind |-> "cast", Src |-> last.x, Width |-> width,
                              Signed |-> signed],
                   result |-> NilExpr],
                  NewCastExprPanics(last.x, width, signed),
                  NewCastExpr(last.x, width, signed))

\* NewNotExpr(x)
NotCall ==
    /\ last.op = "none"
    /\ ExprReturn([op |-> "NewNotExpr", naive |-> [kind |-> "not", Expr |-> last.x],
                   result |-> NilExpr],
                  FALSE,
                  NewNotExpr(last.x))

ExprNext ==
    \/ \E op \in BinaryOps : BinaryCall(op)
    \/ ConcatCall
    \/ \E offset \in ExtractOffsets, width \in ExtractWidths : ExtractCall(offset, width)
    \/ \E width \in CastWidths, signed \in BOOLEAN : CastCall(width, signed)
    \/ NotCall

ExprSpec == ExprInit /\ [][ExprNext]_vars

(***************************************************************************)
(* The specification of allocation: ExecutionState.Alloc called on the     *)
(* root state of an executor, as the instruction handlers call it, with    *)
(* sizes up to and above Executor.MaxAllocSize.  last holds the call.      *)
(***************************************************************************)
MaxAllocs == 3

\* Executor.MaxAllocSize, in bytes.
MaxAllocSize == IF PointerWidth = Width32 THEN 1 * 1024 * 1024 ELSE 256 * 1024 * 1024

AllocSizes == {0, 1, Width64 \div 8, MaxAllocSize, MaxAllocSize + 1}

AllocInit ==
    \E w \in {NewExecutionState(1, NewDFSSearcher)} :
        /\ prog = 1
        /\ states = w.states
        /\ mem = w.mem
        /\ searcher = AddState(NewDFSSearcher, 1)
        /\ stateIDSeq = 1
        /\ last = [op |-> "none"]
        /\ ran = {}
        /\ dead = {}
        /\ crashed = FALSE

\* state.Alloc(width) on the root state.
AllocCall(width) ==
    /\ Len(mem.arrays) < MaxAllocs
    /\ \E a \in {Alloc(World(prog, states, mem, searcher, stateIDSeq, 0, TRUE), 1, width)} :
          /\ states' = a.w.states
          /\ mem' = a.w.mem
          /\ last' = [op |-> "alloc", width |-> width, addr |-> a.addr, array |-> a.array]
    /\ UNCHANGED << prog, searcher, stateIDSeq, ran, dead, crashed >>

AllocNext == \E width \in AllocSizes : AllocCall(width)

AllocSpec == AllocInit /\ [][AllocNext]_vars

(***************************************************************************)
(* The heap of one state on its own: arrays are allocated on the root      *)
(* state (ExecutionState.Alloc), released as Pop releases the locals of a  *)
(* frame (s.heap.Delete), and looked up by address                         *)
(* (findAllocContainingAddr).  last holds the call.                        *)
(***************************************************************************)
MaxHeapAllocs == 3

\* The sizes of the arrays, in bytes.
HeapSizes == {0, 1, 3}

\* The addresses looked up: from below the first allocation to the end of
\* the last one.
HeapAddrs == (PointerWidth - 1)..(PointerWidth + 3 * MaxHeapAllocs)

HeapAllocCall(width) ==
    /\ Len(mem.arrays) < MaxHeapAllocs
    /\ \E a \in {Alloc(World(prog, states, mem, searcher, stateIDSeq, 0, TRUE), 1, width)} :
          /\ states' = a.w.states
          /\ mem' = a.w.mem
          /\ last' = [op |-> "alloc", addr |-> a.addr.Value, base |-> NilExpr, array |-> a.array]
    /\ UNCHANGED << prog, searcher, stateIDSeq, ran, dead, crashed >>

HeapDeleteCall(key) ==
    /\ key \in DOMAIN states[1].heap
    /\ states' = [states EXCEPT ![1].heap = HeapDelete(@, key)]
    /\ last' = [op |-> "delete", addr |-> key, base |-> NilExpr, array |-> 0]
    /\ UNCHANGED << prog, mem, searcher, stateIDSeq, ran, dead, crashed >>

\* state.findAllocContainingAddr(addr) on the root state.
HeapFindCall(addr) ==
    /\ \E found \in {findAllocContainingAddr(mem, states[1],
                                               NewConstantExpr(addr, PointerWidth))} :
          last' = [op |-> "find", addr |-> addr, base |-> found.base, array |-> found.array]
    /\ UNCHANGED << prog, states, mem, searcher, stateIDSeq, ran, dead, crashed >>

HeapNext ==
    \/ \E width \in HeapSizes : HeapAllocCall(width)
    \/ \E key \in HeapAddrs : HeapDeleteCall(key)
    \/ \E addr \in HeapAddrs : HeapFindCall(addr)

HeapSpec == AllocInit /\ [][HeapNext]_vars

(***************************************************************************)
(* Properties.                                                             *)
(***************************************************************************)
\* The byte read at every address of a state's heap.
HeapBytes(m, st) ==
    [k \in DOMAIN st.heap |->
        [j \in 0..(m.arrays[st.heap[k]].Size - 1) |->
            selectByte(m, st.heap[k], NewConstantExpr64(j))]]

\* States s and t are parent and child, or siblings.
Related(s, t) ==
    \/ states[t].parent = s
    \/ states[s].parent = t
    \/ states[s].parent # 0 /\ states[s].parent = states[t].parent /\ s # t

\* C1: fork integrity.  A call of ExecuteNextState that operates on a state
\* leaves the stack, the constraint list and the byte read at every heap
\* address of its parent, of its children and of its siblings unchanged.
C1_ForkIntegrity ==
    [][\A t \in 1..Len(states) :
          (last'.state # 0 /\ last'.state <= Len(states) /\ Related(last'.state, t))
          => /\ states'[t].stack = states[t].stack
             /\ states'[t].constraints = states[t].constraints
             /\ HeapBytes(mem', states'[t]) = HeapBytes(mem, states[t])]_vars

\* C2: clone-on-write.  The update chain that was reachable from an array
\* before a call has the same entries in the same order after it.
C2_CloneOnWrite ==
    [][\A a \in 1..Len(mem.arrays) :
          ChainFrom(mem', mem.arrays[a].Updates) = Chain(mem, a)]_vars

\* The state the last call selected, as it is now.
LastState == states[last.state]

\* C3: a state that has forked executes no further instruction: a call that
\* selects a state which already had a child executes nothing on it.
C3_NoExecutionAfterFork ==
    (last.state # 0 /\ Forked(last.before)) => last.executed = 0

\* C4: under a MultiSearcher a state is executed at most once: a call that
\* selects a state which an earlier call selected runs none of its
\* instructions and gives it no further child.
C4_MultiAtMostOnce ==
    (searcher.kind = "multi" /\ last.state # 0 /\ last.again)
    => /\ last.executed = 0
       /\ LastState.children = last.before.children

\* C5: a call that returns a state without error leaves it forked or
\* terminated.
C5_ForkedOrTerminated ==
    (last.state # 0 /\ last.err = "") => (Forked(LastState) \/ Terminated(LastState))

\* The instruction a state is positioned at.
InstrOf(st) ==
    IF HasFrame(st) THEN FrameInstr([prog |-> prog], Frame(st)) ELSE NilInstr

\* C6: a state returned by a call after it executed a Return in its
\* outermost frame is finished, so that it reports Terminated().
C6_OutermostReturnFinishes ==
    (/\ last.state # 0
     /\ last.err = ""
     /\ last.executed > 0
     /\ InstrOf(LastState).op = "Return"
     /\ ~HasCallerFrame(LastState))
    => (LastState.status = ExecutionStatusFinished /\ Terminated(LastState))

\* C7: repeated calls of ExecuteNextState eventually return
\* ErrNoStateAvailable (or the process has ended in a Go panic).
C7_EventuallyNoStateAvailable == <>(crashed \/ last.err = ErrNoStateAvailable)

\* The parent links of state t lead to the root, and every link is also a
\* child link of the parent.
RECURSIVE ReachableFromRoot(_)
ReachableFromRoot(t) ==
    \/ t = 1
    \/ /\ states[t].parent # 0
       /\ \E i \in 1..Len(states[states[t].parent].children) :
             states[states[t].parent].children[i] = t
       /\ ReachableFromRoot(states[t].parent)

\* C8: a panicked state is no longer advanced: a call that selects it
\* executes no instruction on it and leaves its status, stack, heap and
\* constraints as they were; and every panicked state is reachable from the
\* root.
C8_PanickedNotAdvanced ==
    /\ (last.state # 0 /\ last.before.status = ExecutionStatusPanicked)
       => /\ last.executed = 0
          /\ LastState.status = last.before.status
          /\ LastState.stack = last.before.stack
          /\ LastState.heap = last.before.heap
          /\ LastState.constraints = last.before.constraints
    /\ \A t \in 1..Len(states) :
          states[t].status = ExecutionStatusPanicked => ReachableFromRoot(t)

\* The conjuncts of an expression, left to right.
RECURSIVE Conjuncts(_)
Conjuncts(e) ==
    IF e.kind = "binary" /\ e.Op = "AND" THEN Conjuncts(e.LHS) \o Conjuncts(e.RHS)
    ELSE << e >>

\* The children that the last call gave the state it selected.
NewChildren == SubSeq(LastState.children, Len(last.before.children) + 1,
                      Len(LastState.children))

\* One side of the If that the last call executed: there is a child exactly
\* when the solver answered sat; the child carries the parent's constraints
\* followed by cs, and is placed before the first instruction of the
\* successor block succ, the rest of its stack being the parent's.
IfSide(child, sat, cs, succ) ==
    /\ child # 0 <=> sat = "sat"
    /\ child # 0 =>
          /\ \E i \in 1..Len(NewChildren) : NewChildren[i] = child
          /\ states[child].parent = last.state
          /\ states[child].constraints = LastState.constraints \o cs
          /\ Len(states[child].stack) = Len(LastState.stack)
          /\ Frame(states[child]) =
                jump(Frame(LastState), BlockSuccs([prog |-> prog], Frame(LastState))[succ])
          /\ Frame(states[child]).pc = -1

\* The If of the last call, with the constraint a child gets for the
\* condition c being either << c >> or the conjuncts of c.
IfForks(whole) ==
    last.ifrec.state # 0
    => /\ last.ifrec.state = last.state
       /\ last.ifrec.cond = Lookup(Frame(LastState), InstrOf(LastState).Cond.n)
       /\ IfSide(last.ifrec.falseChild, last.ifrec.falseSat,
                 IF whole THEN << NewNotExpr(last.ifrec.cond) >>
                 ELSE Conjuncts(NewNotExpr(last.ifrec.cond)), 2)
       /\ IfSide(last.ifrec.trueChild, last.ifrec.trueSat,
                 IF whole THEN << last.ifrec.cond >> ELSE Conjuncts(last.ifrec.cond), 1)
       /\ Len(NewChildren) = (IF last.ifrec.falseSat = "sat" THEN 1 ELSE 0)
                             + (IF last.ifrec.trueSat = "sat" THEN 1 ELSE 0)

\* C9 as stated: at an If a child is created for a side exactly when the
\* solver reports that side satisfiable; the child's constraint list is the
\* parent's list followed by that side's condition, and the child is
\* positioned at the start of the successor block.
C9_IfForksWholeCondition == IfForks(TRUE)

\* C9 amended: as above, but the child's constraint list is the parent's
\* list followed by the conjuncts of that side's condition (the condition
\* itself when it is not a conjunction).
C9_IfForksConjuncts == IfForks(FALSE)

\* An If on a conjunction has forked a child for each side.
C9_Witness ==
    /\ last.ifrec.state # 0
    /\ last.ifrec.falseSat = "sat"
    /\ last.ifrec.trueSat = "sat"
    /\ IsBinaryOp(last.ifrec.cond, "AND")
    /\ Len(NewChildren) = 2

\* C10: when both sides of an If are infeasible the state gets no child and
\* the call returns no error, and no later call executes an instruction on
\* that state.
C10_DeadPathStaysDead ==
    /\ (/\ last.ifrec.state # 0
        /\ last.ifrec.falseSat = "unsat"
        /\ last.ifrec.trueSat = "unsat")
       => (last.err = "" /\ LastState.children = << >>)
    /\ (last.state # 0 /\ last.wasDead) => last.executed = 0

\* The position of state s in a sequence of states (0: not in it).
IndexOf(seq, s) ==
    IF \E i \in 1..Len(seq) : seq[i] = s THEN CHOOSE i \in 1..Len(seq) : seq[i] = s
    ELSE 0

\* A simple searcher that keeps a list holds a and b, a added before b.
AddedBefore(srch, a, b) ==
    srch.kind = "randompath"
    \/ (IndexOf(srch.states, a) # 0 /\ IndexOf(srch.states, a) < IndexOf(srch.states, b))

\* C11: when both sides of an If are feasible the false-branch state is
\* emitted before the true-branch state: it is created first, it gets the
\* smaller id, and it is added to the searcher (to every sub-searcher of a
\* MultiSearcher) first.
C11_FalseBranchFirst ==
    (/\ last.ifrec.state # 0
     /\ last.ifrec.falseSat = "sat"
     /\ last.ifrec.trueSat = "sat")
    => /\ last.ifrec.falseChild < last.ifrec.trueChild
       /\ IndexOf(LastState.children, last.ifrec.falseChild) # 0
       /\ IndexOf(LastState.children, last.ifrec.falseChild)
             < IndexOf(LastState.children, last.ifrec.trueChild)
       /\ states[last.ifrec.falseChild].id < states[last.ifrec.trueChild].id
       /\ IF searcher.kind = "multi"
          THEN \A i \in 1..Len(searcher.searchers) :
                  AddedBefore(searcher.searchers[i], last.ifrec.falseChild,
                              last.ifrec.trueChild)
          ELSE AddedBefore(searcher, last.ifrec.falseChild, last.ifrec.trueChild)

\* An If has forked both sides under a searcher that keeps a list.
C11_Witness ==
    /\ last.ifrec.state # 0
    /\ last.ifrec.falseSat = "sat"
    /\ last.ifrec.trueSat = "sat"
    /\ searcher.kind = "bfs"
    /\ Len(searcher.states) >= 2

\* The states below state t in the state tree.
RECURSIVE Descendants(_)
Descendants(t) ==
    UNION {{states[t].children[i]} \cup Descendants(states[t].children[i]) :
              i \in 1..Len(states[t].children)}

\* State t is the false-branch child of an If that forked both sides.
IsFalseChild(t) ==
    /\ states[t].parent # 0
    /\ InstrOf(states[states[t].parent]).op = "If"
    /\ Len(states[states[t].parent].children) = 2
    /\ states[states[t].parent].children[1] = t

\* C12: under the depth-first strategy a call selects the most recently
\* added state (the one with the greatest id) among the states the searcher
\* holds; and when the false-branch child of an If that forked both sides is
\* selected, the true-branch child and all its descendants have been
\* selected already.
C12_DepthFirstOrder ==
    /\ [][(searcher.kind = "dfs" /\ Len(searcher.states) > 0)
          => /\ last'.state # 0
             /\ \A i \in 1..Len(searcher.states) :
                   states[searcher.states[i]].id <= states[last'.state].id]_vars
    /\ [](((searcher.kind = "dfs" /\ last.state # 0) /\ IsFalseChild(last.state))
          => ({states[LastState.parent].children[2]}
                 \cup Descendants(states[LastState.parent].children[2])) \subseteq ran)

\* The false-branch child is selected under depth-first search after its
\* true-branch sibling has forked.
C12_Witness ==
    /\ searcher.kind = "dfs"
    /\ last.state # 0
    /\ IsFalseChild(last.state)
    /\ Descendants(states[LastState.parent].children[2]) # {}

\* The value of an operand in frame f.
OperandValue(f, value) ==
    IF value.k = "int" THEN NewConstantExpr(value.v, value.width) ELSE Lookup(f, value.n)

\* The last call ended by executing instruction op without error.
LastExecuted(op) ==
    /\ last.state # 0
    /\ last.err = ""
    /\ last.executed > 0
    /\ InstrOf(last.pre).op = op

\* The last call ended by executing a Call of a program function.
LastCalled == LastExecuted("Call") /\ InstrOf(last.pre).path # GleePath

\* Frame f is a new frame of function fn at its entry block, one local
\* array for each of the function's locals, and the parameters bound to the
\* values that the operands args have in frame caller.
IsCalleeFrame(f, fn, args, caller) ==
    /\ f.fn = fn
    /\ f.block = 1
    /\ f.pc = -1
    /\ Len(f.locals) = Len(Programs[prog][fn].Locals)
    /\ Len(args) = Len(Programs[prog][fn].Params)
    /\ \A i \in 1..Len(args) :
          Lookup(f, Programs[prog][fn].Params[i]) = OperandValue(caller, args[i])
    /\ DOMAIN f.bindings =
          {Programs[prog][fn].Params[i] : i \in 1..Len(args)}
          \cup {Programs[prog][fn].Locals[i].name : i \in 1..Len(f.locals)}

\* C13: a Call of a function that is not a registered built-in forks the
\* state exactly once; the fork's stack is the caller's stack with a new
\* frame for the callee on top, at the callee's entry block and with each
\* parameter bound to the argument's value; the caller's own stack (its
\* depth and its bindings) is as it was before the Call.
C13_CallForksOnce ==
    LastCalled
    => /\ Len(NewChildren) = 1
       /\ LastState.stack = last.pre.stack
       /\ states[NewChildren[1]].parent = last.state
       /\ Len(states[NewChildren[1]].stack) = Len(last.pre.stack) + 1
       /\ SubSeq(states[NewChildren[1]].stack, 1, Len(last.pre.stack)) = last.pre.stack
       /\ IsCalleeFrame(Frame(states[NewChildren[1]]), InstrOf(last.pre).fn,
                        InstrOf(last.pre).args, Frame(last.pre))

\* A Call with an argument has been executed.
C13_Witness ==
    /\ LastCalled
    /\ Len(InstrOf(last.pre).args) > 0
    /\ Len(NewChildren) = 1

\* The last call ended by executing a Return below which a caller frame
\* exists.
LastReturned == LastExecuted("Return") /\ HasCallerFrame(last.pre)

\* The values of the results of the Return that state st is positioned at.
ResultValues(st) ==
    [i \in 1..Len(InstrOf(st).Results) |-> OperandValue(Frame(st), InstrOf(st).Results[i])]

\* The caller frame of st once the results of the Return that st is
\* positioned at have been bound to its call instruction: one result is
\* bound as it is, several as a tuple, and nothing is bound when there is
\* no result.
CallerWithResults(st) ==
    IF FrameInstr([prog |-> prog], CallerFrame(st)).op # "Call" \/ Len(ResultValues(st)) = 0
    THEN CallerFrame(st)
    ELSE bind(CallerFrame(st), FrameInstr([prog |-> prog], CallerFrame(st)).name,
              IF Len(ResultValues(st)) = 1 THEN ResultValues(st)[1]
              ELSE TupleBinding(ResultValues(st)))

\* State c is held by the searcher (by every sub-searcher of a
\* MultiSearcher); a random-path searcher holds no states.
InSearcher(srch, c) ==
    CASE srch.kind = "multi" ->
            \A i \in 1..Len(srch.searchers) :
               srch.searchers[i].kind = "randompath"
               \/ IndexOf(srch.searchers[i].states, c) # 0
      [] srch.kind = "randompath" -> TRUE
      [] OTHER -> IndexOf(srch.states, c) # 0

\* C14: a Return below which a caller frame exists binds the results to the
\* call instruction in the caller frame, forks exactly one state, pops the
\* fork's top frame and adds the fork to the searcher: the fork's stack is
\* the returning state's stack without its top frame, positioned at the
\* call in the caller.
C14_ReturnForksToCaller ==
    LastReturned
    => /\ Len(NewChildren) = 1
       /\ LastState.stack =
             [last.pre.stack EXCEPT ![Len(last.pre.stack) - 1] = CallerWithResults(last.pre)]
       /\ states[NewChildren[1]].parent = last.state
       /\ Len(states[NewChildren[1]].stack) = Len(LastState.stack) - 1
       /\ states[NewChildren[1]].stack = SubSeq(LastState.stack, 1, Len(LastState.stack) - 1)
       /\ InstrOf(states[NewChildren[1]]).op = "Call"
       /\ InSearcher(searcher, NewChildren[1])

\* A Return of two results to a caller has been executed.
C14_Witness ==
    /\ LastReturned
    /\ Len(InstrOf(last.pre).Results) = 2
    /\ Len(NewChildren) = 1
    /\ Lookup(Frame(states[NewChildren[1]]), "t1").kind = "tuple"

\* Sequence a is an initial part of sequence b.
IsPrefix(a, b) == Len(a) <= Len(b) /\ SubSeq(b, 1, Len(a)) = a

\* C15: constraint order is preserved.  A call changes the constraint list
\* of a state only by appending to it, and the constraint list of every
\* state forked by the call begins with its parent's list.
C15_ConstraintsAppendOnly ==
    [][/\ \A t \in 1..Len(states) : IsPrefix(states[t].constraints, states'[t].constraints)
       /\ \A t \in (Len(states) + 1)..Len(states') :
             IsPrefix(states'[states'[t].parent].constraints, states'[t].constraints)]_vars

\* A state whose parent had a constraint has been forked with a further
\* one.
C15_Witness ==
    \E t \in 1..Len(states) :
       /\ states[t].parent # 0
       /\ Len(states[states[t].parent].constraints) >= 1
       /\ Len(states[t].constraints) > Len(states[states[t].parent].constraints)

\* The allocations in the history of every state.
AllAllocs == UNION {{states[t].allocs[i] : i \in 1..Len(states[t].allocs)} : t \in 1..Len(states)}

\* C16: an allocation gets exclusive placement: the address Alloc returns
\* is not the base of an array that is in the state's heap, and does not
\* lie inside one.
C16_AllocExclusive ==
    \A a \in AllAllocs :
       \A e \in a.live : a.addr # e[1] /\ ~(e[1] <= a.addr /\ a.addr < e[1] + e[2])

\* C17 as stated: along a state's history every allocation gets an address
\* strictly higher than every earlier allocation's.
C17_AllocStrictlyHigher ==
    \A t \in 1..Len(states) :
       \A i, j \in 1..Len(states[t].allocs) :
          i < j => states[t].allocs[i].addr < states[t].allocs[j].addr

\* C17 amended: every allocation gets an address at or above the end
\* (address + size) of every array that is in the state's heap at that
\* time.
C17_AllocAboveLive ==
    \A a \in AllAllocs : \A e \in a.live : a.addr >= e[1] + e[2]

\* An allocation was made after a frame's local array had been released at
\* the same address.
C17_Witness ==
    \E t \in 1..Len(states) :
       \E i, j \in 1..Len(states[t].allocs) :
          /\ i < j
          /\ states[t].allocs[i].addr = states[t].allocs[j].addr
          /\ states[t].allocs[i].size > 0
          /\ states[t].allocs[j].live # {}

\* The highest-addressed array of a non-empty set of arrays.
Highest(live) == CHOOSE e \in live : \A f \in live : f[1] <= e[1]

\* The address Alloc gives when the heap holds the arrays live, with first
\* the address given when the heap is empty.
PlacedAt(a, first) ==
    /\ a.addr = (IF a.live = {} THEN first ELSE Highest(a.live)[1] + Highest(a.live)[2])
    /\ a.addr # 0

\* C18 as stated: Alloc places the new array at the address plus the size
\* of the highest-addressed heap entry, or at the pointer width in bytes
\* when the heap is empty; the address is never zero.
C18_AllocAtBytes == \A a \in AllAllocs : PlacedAt(a, PointerWidth \div 8)

\* C18 amended: as above, but the address given when the heap is empty is
\* the pointer width in bits.
C18_AllocAtBits == \A a \in AllAllocs : PlacedAt(a, PointerWidth)

\* A state has allocated into an empty heap and then into a non-empty one.
C18_Witness ==
    \E t \in 1..Len(states) :
       /\ Len(states[t].allocs) >= 2
       /\ states[t].allocs[1].live = {}
       /\ states[t].allocs[2].live # {}
       /\ states[t].allocs[2].addr > states[t].allocs[1].addr

\* An array is (a version of) one of the arrays in locals.
IsLocal(a, locals) == \E l \in locals : l.ID = a.ID /\ l.Size = a.Size

\* C19: a Pop releases the frame's local arrays: none of them is in the
\* state's heap afterwards, and every other heap entry is as it was.
C19_PopReleasesLocals ==
    \A i \in 1..Len(last.pops) :
       /\ \A k \in DOMAIN last.pops[i].after : ~IsLocal(last.pops[i].after[k], last.pops[i].locals)
       /\ \A k \in DOMAIN last.pops[i].before :
             ~IsLocal(last.pops[i].before[k], last.pops[i].locals)
             => (k \in DOMAIN last.pops[i].after
                 /\ last.pops[i].after[k] = last.pops[i].before[k])


\* The access of width bits at index lies inside the array a.
InBounds(m, a, index, width) ==
    index + (IF width = WidthBool THEN 1 ELSE width \div 8) <= m.arrays[a].Size

\* Two expressions have the same width and the same value under every
\* content of the symbolic array.
Equivalent(m, a, b) ==
    /\ ExprWidth(a) = ExprWidth(b)
    /\ \A bytes \in [0..1 -> 0..MaxByte] :
          LET content == [id \in {1, 2} |->
                            IF id = 1 THEN bytes ELSE [j \in 0..(TargetSize - 1) |-> 0]]
          IN  Evaluate(m, content, a) = Evaluate(m, content, b)

\* The last call is a Select with the index, width and endianness of the
\* Store before it, on the array that Store returned.
RoundTripped ==
    /\ last.op = "select"
    /\ last.index = last.store.index
    /\ last.isLittleEndian = last.store.isLittleEndian
    /\ last.width = ExprWidth(last.store.value)

\* Every boundary between the parts of a concatenation is a byte boundary.
RECURSIVE ByteAligned(_)
ByteAligned(expr) ==
    expr.kind = "concat"
        => /\ ExprWidth(expr.LSB) % 8 = 0
           /\ ByteAligned(expr.MSB)
           /\ ByteAligned(expr.LSB)

\* C20: array round trip.  Storing a value v of width 1, 8, 16, 32 or 64 at a
\* concrete index where the access is in bounds returns an array, and
\* selecting that width at that index with the same endianness from the
\* returned array yields an expression that denotes v.
C20_ArrayRoundTrip ==
    /\ (last.op = "store" /\ InBounds(mem, 2, last.index, ExprWidth(last.value)))
          => ~last.panicked
    /\ (RoundTripped /\ InBounds(mem, 2, last.index, last.width))
          => Equivalent(mem, last.result, last.store.value)

\* The round trip of the values whose concatenations are made of whole bytes.
RoundTripOfAligned ==
    /\ (/\ last.op = "store"
        /\ InBounds(mem, 2, last.index, ExprWidth(last.value))
        /\ ByteAligned(last.value))
          => ~last.panicked
    /\ (RoundTripped /\ InBounds(mem, 2, last.index, last.width))
          => Equivalent(mem, last.result, last.store.value)

\* A round trip of a symbolic 32-bit value has been made.
RoundTripWitness ==
    /\ RoundTripped
    /\ last.width = Width32
    /\ ~IsConstantExpr(last.store.value)
    /\ InBounds(mem, 2, last.index, last.width)


\* Every write of a history has a constant index.
ConcreteWrites(ws) == \A i \in 1..Len(ws) : IsConstantExpr(ws[i].Index)

\* The position in a history of the latest write to the index of entry e.
LatestWrite(ws, e) == Max({i \in 1..Len(ws) : ws[i].Index = e.Index})

\* C21: after any sequence of concrete-index writes to an array, its update
\* chain contains at most one entry per index, that entry holds the latest
\* value written to the index, and the entries appear newest-first.
C21_ChainGarbageCollected ==
    \A a \in ChainArrays :
       ConcreteWrites(last.writes[a]) =>
          LET ws == last.writes[a]
              chain == Chain(mem, a)
          IN  /\ \A i, j \in 1..Len(chain) :
                    chain[i].Index = chain[j].Index => i = j
              /\ \A i \in 1..Len(chain) :
                    /\ \E k \in 1..Len(ws) : ws[k].Index = chain[i].Index
                    /\ chain[i].Value = ws[LatestWrite(ws, chain[i])].Value
              /\ \A i, j \in 1..Len(chain) :
                    i < j => LatestWrite(ws, chain[i]) > LatestWrite(ws, chain[j])

\* An array made by three concrete writes, two of them to one index, is held:
\* the shadowed entry is gone from its chain.
C21_Witness ==
    \E a \in ChainArrays :
       /\ ConcreteWrites(last.writes[a])
       /\ Len(last.writes[a]) = 3
       /\ last.writes[a][1].Index = last.writes[a][3].Index
       /\ last.writes[a][1].Value # last.writes[a][3].Value
       /\ last.writes[a][2].Index # last.writes[a][3].Index
       /\ Len(Chain(mem, a)) = 2


\* A history ends with a concrete write, a symbolic-index write and another
\* concrete write to the same index.
AcrossBarrier(ws) ==
    /\ Len(ws) >= 3
    /\ IsConstantExpr(ws[Len(ws)].Index)
    /\ ~IsConstantExpr(ws[Len(ws) - 1].Index)
    /\ ws[Len(ws) - 2].Index = ws[Len(ws)].Index

\* The entries of a chain from its newest symbolic-index entry on.
RECURSIVE FromBarrier(_)
FromBarrier(chain) ==
    IF chain = << >> \/ ~IsConstantExpr(chain[1].Index) THEN chain
    ELSE FromBarrier(Tail(chain))

\* The chain of an array starts with the last three writes of its history.
ThreeRetained(a) ==
    LET ws == last.writes[a]
        chain == Chain(mem, a)
    IN  /\ Len(chain) >= 3
        /\ \A i \in 1..3 : chain[i] = ws[Len(ws) + 1 - i]

\* C22: a concrete write, a symbolic-index write and another concrete write
\* to the same index leave all three entries in the chain, and no write
\* removes an entry of a held array that lies behind a symbolic-index entry.
C22_NoCollectionAcrossBarrier ==
    /\ [](\A a \in ChainArrays : AcrossBarrier(last.writes[a]) => ThreeRetained(a))
    /\ [][\A a \in ChainArrays :
             FromBarrier(Chain(mem', a)) = FromBarrier(Chain(mem, a))]_vars


\* The last call reads a byte of an array whose history ends with a concrete
\* write, a symbolic-index write and a concrete write to the same index.
ReadAcrossBarrier == last.op = "select" /\ AcrossBarrier(last.writes[last.array])

\* The last write of the history of the array that was read.
LastWrite == last.writes[last.array][Len(last.writes[last.array])]

ByteValues == {0, 1, 127, 128, 255}

\* An unsigned value of the given width as a two's-complement integer.
AsSigned(v, width) == IF v >= Pow2(width - 1) THEN v - Pow2(width) ELSE v

\* x * y modulo 2^width, by doubling.
RECURSIVE MulMod(_, _, _)
MulMod(x, y, width) ==
    IF y = 0 THEN 0
    ELSE (2 * MulMod(x, y \div 2, width) + (y % 2) * x) % Pow2(width)

\* No value: it is below every value of a bit vector.
Undefined == 0 - 1

\* The bit-vector value of a binary operator on operands of the given width;
\* a division by zero has none.
BitVector(op, x, y, width) ==
    LET sx == AsSigned(x, width)
        sy == AsSigned(y, width)
        bool(b) == IF b THEN 1 ELSE 0
    IN  CASE op = "ADD" -> (x + y) % Pow2(width)
          [] op = "SUB" -> (x - y) % Pow2(width)
          [] op = "MUL" -> MulMod(x, y, width)
          [] op = "UDIV" -> IF y = 0 THEN Undefined ELSE x \div y
          [] op = "SDIV" -> IF y = 0 THEN Undefined ELSE QuoTrunc(sx, sy) % Pow2(width)
          [] op = "UREM" -> IF y = 0 THEN Undefined ELSE x % y
          [] op = "SREM" ->
                IF y = 0 THEN Undefined ELSE (sx - sy * QuoTrunc(sx, sy)) % Pow2(width)
          [] op = "AND" -> BitAnd(x, y, width)
          [] op = "OR" -> BitOr(x, y, width)
          [] op = "XOR" -> BitXor(x, y, width)
          [] op = "SHL" -> IF y >= width THEN 0 ELSE (x * Pow2(y)) % Pow2(width)
          [] op = "LSHR" -> IF y >= width THEN 0 ELSE x \div Pow2(y)
          [] op = "ASHR" ->
                IF y >= width THEN (IF sx < 0 THEN Pow2(width) - 1 ELSE 0)
                ELSE (sx \div Pow2(y)) % Pow2(width)
          [] op = "EQ" -> bool(x = y)
          [] op = "NE" -> bool(x # y)
          [] op = "ULT" -> bool(x < y)
          [] op = "ULE" -> bool(x <= y)
          [] op = "UGT" -> bool(x > y)
          [] op = "UGE" -> bool(x >= y)
          [] op = "SLT" -> bool(sx < sy)
          [] op = "SLE" -> bool(sx <= sy)
          [] op = "SGT" -> bool(sx > sy)
          [] op = "SGE" -> bool(sx >= sy)

\* The bit-vector value of an expression node, taken as it is written, when
\* the symbolic array holds bytes.
RECURSIVE Denote(_, _)
Denote(expr, bytes) ==
    CASE expr.kind = "const" -> expr.Value
      [] expr.kind = "select" -> bytes[expr.Index.Value]
      [] expr.kind = "notopt" -> Denote(expr.Expr, bytes)
      [] expr.kind = "concat" ->
            LET msb == Denote(expr.MSB, bytes)
                lsb == Denote(expr.LSB, bytes)
            IN  IF Undefined \in {msb, lsb} THEN Undefined
                ELSE msb * Pow2(ExprWidth(expr.LSB)) + lsb
      [] expr.kind = "extract" ->
            LET v == Denote(expr.Expr, bytes)
            IN  IF v = Undefined THEN Undefined
                ELSE (v \div Pow2(expr.Offset)) % Pow2(expr.Width)
      [] expr.kind = "not" ->
            LET v == Denote(expr.Expr, bytes)
            IN  IF v = Undefined THEN Undefined ELSE Pow2(ExprWidth(expr.Expr)) - 1 - v
      [] expr.kind = "cast" ->
            LET v == Denote(expr.Src, bytes)
            IN  IF v = Undefined THEN Undefined
                ELSE IF expr.Signed
                THEN AsSigned(v, ExprWidth(expr.Src)) % Pow2(expr.Width)
                ELSE v % Pow2(expr.Width)
      [] expr.kind = "binary" ->
            LET x == Denote(expr.LHS, bytes)
                y == Denote(expr.RHS, bytes)
            IN  IF Undefined \in {x, y} THEN Undefined
                ELSE BitVector(expr.Op, x, y, ExprWidth(expr.LHS))

Returned == last.op \in {"NewBinaryExpr", "NewConcatExpr", "NewExtractExpr",
                         "NewCastExpr", "NewNotExpr"}

SameValue(a, b) ==
    \A bytes \in [0..1 -> ByteValues] :
        Denote(b, bytes) # Undefined => Denote(a, bytes) = Denote(b, bytes)

\* C24: the expression a constructor returns has, for every assignment of
\* bytes to the symbolic array, the value of the node that the call names.
C24_ConstructorsEquivalent == Returned => SameValue(last.result, last.naive)

\* NewExtractExpr(expr, offset, width) reaches a concatenation whose parts
\* have different widths with a window that lies across its two parts.
RECURSIVE UnevenStraddle(_, _, _)
UnevenStraddle(expr, offset, width) ==
    IF width = ExprWidth(expr) \/ expr.kind # "concat" THEN FALSE
    ELSE IF offset >= ExprWidth(expr.LSB)
    THEN UnevenStraddle(expr.MSB, offset - ExprWidth(expr.LSB), width)
    ELSE IF offset + width <= ExprWidth(expr.LSB)
    THEN UnevenStraddle(expr.LSB, offset, width)
    ELSE ExprWidth(expr.MSB) # ExprWidth(expr.LSB)

\* Every other call returns an expression of the value of the node it names.
EquivalentWithoutStraddle ==
    (/\ Returned
     /\ last.op = "NewExtractExpr" =>
            ~UnevenStraddle(last.naive.Expr, last.naive.Offset, last.naive.Width))
        => SameValue(last.result, last.naive)


\* The integer types whose values are signed.
SignedTypes == {"int", "int8"}

\* The integer BinOp instructions of a function.
IntegerBinOps(fn) ==
    UNION { { fn.Blocks[b].Instrs[i] : i \in 1..Len(fn.Blocks[b].Instrs) } :
               b \in 1..Len(fn.Blocks) }

\* The operator the operand type asks for.
OpcodeByType(tok, typ) ==
    IF typ \in SignedTypes
    THEN CASE tok = "QUO" -> "SDIV" [] tok = "REM" -> "SREM" [] tok = "SHR" -> "ASHR"
           [] tok = "LSS" -> "SLT" [] tok = "LEQ" -> "SLE" [] tok = "GTR" -> "SGT"
           [] tok = "GEQ" -> "SGE" [] OTHER -> BinaryOpOf(tok, TRUE)
    ELSE CASE tok = "QUO" -> "UDIV" [] tok = "REM" -> "UREM" [] tok = "SHR" -> "LSHR"
           [] tok = "LSS" -> "ULT" [] tok = "LEQ" -> "ULE" [] tok = "GTR" -> "UGT"
           [] tok = "GEQ" -> "UGE" [] OTHER -> BinaryOpOf(tok, FALSE)

\* The value of an integer BinOp instruction in a frame is built with the
\* operator of its operand type.
BoundByType(f, instr) ==
    (/\ instr.op = "BinOp"
     /\ instr.typ \in IntegerTypes
     /\ instr.name \in DOMAIN f.bindings)
        => f.bindings[instr.name] =
              NewBinaryExpr(mem, OpcodeByType(instr.tok, instr.typ),
                            OperandValue(f, instr.X), OperandValue(f, instr.Y))

\* C25: an integer BinOp instruction is executed with the signed operator
\* (SDIV, SREM, ASHR, SLT, SLE, SGT, SGE) when its operands have a signed
\* integer type and with the unsigned one (UDIV, UREM, LSHR, ULT, ULE, UGT,
\* UGE) when they have an unsigned integer type.
C25_OpcodeByOperandType ==
    \A s \in 1..Len(states) :
        \A d \in 1..Len(states[s].stack) :
            \A instr \in IntegerBinOps(Programs[prog][states[s].stack[d].fn]) :
                BoundByType(states[s].stack[d], instr)

\* The same for the instructions on an unsigned type alone.
UnsignedOpcodeByType ==
    \A s \in 1..Len(states) :
        \A d \in 1..Len(states[s].stack) :
            \A instr \in IntegerBinOps(Programs[prog][states[s].stack[d].fn]) :
                (instr.op = "BinOp" /\ instr.typ \notin SignedTypes)
                    => BoundByType(states[s].stack[d], instr)


\* The call just made returned an error and advanced no state: nothing was
\* selected from the searcher, executed or modified.
SurfacedWithoutAdvance ==
    /\ last'.err \notin {"", GoPanic}
    /\ last'.state = 0
    /\ UNCHANGED << states, mem, searcher, stateIDSeq >>

\* C26: a call of ExecuteNextState on an executor with an invalid OS and
\* architecture, or with no solver installed, returns an error and advances
\* no state.
C26_ConfigurationErrors ==
    [][(~last'.osArch \/ ~last'.solver) => SurfacedWithoutAdvance]_vars

\* The same for the OS and architecture alone.
InvalidOSArchSurfaced ==
    [][~last'.osArch => (last'.err = ErrInvalidOSArch /\ SurfacedWithoutAdvance)]_vars

\* The last call placed its array in the heap of the state.
Placed ==
    /\ last.addr.Value \in DOMAIN states[1].heap
    /\ states[1].heap[last.addr.Value] = last.array

\* C27: an allocation of more than MaxAllocSize bytes (1 MiB with 32-bit
\* pointers, 256 MiB with 64-bit pointers) ends in a fatal error and its
\* array is not placed in the heap.
C27_MaxAllocation ==
    (last.op = "alloc" /\ last.width > MaxAllocSize) => (crashed /\ ~Placed)

\* An allocation of at most MaxAllocSize bytes is placed.
AllocationPlaced == (last.op = "alloc" /\ last.width <= MaxAllocSize) => Placed


\* The width that the data model gives the construction a call asks for.
PrescribedWidth(node) ==
    CASE node.kind = "binary" ->
            IF IsCompare(node.Op) THEN WidthBool ELSE ExprWidth(node.LHS)
      [] node.kind = "concat" -> ExprWidth(node.MSB) + ExprWidth(node.LSB)
      [] node.kind = "extract" -> node.Width
      [] node.kind = "cast" -> node.Width
      [] node.kind = "not" -> ExprWidth(node.Expr)

\* C28: the expression returned by NewBinaryExpr, NewConcatExpr,
\* NewExtractExpr, NewCastExpr or NewNotExpr has the width of the requested
\* construction: 1 for a compare, the operand width for another binary
\* operator, the sum of the child widths for Concat, the requested width
\* for Extract and Cast, the child width for Not.
C28_WidthPreserved == Returned => ExprWidth(last.result) = PrescribedWidth(last.naive)

\* The same for every call but the Extract that lies across the parts of
\* different widths of a concatenation.
WidthPreservedWithoutStraddle ==
    (/\ Returned
     /\ last.op = "NewExtractExpr" =>
            ~UnevenStraddle(last.naive.Expr, last.naive.Offset, last.naive.Width))
        => ExprWidth(last.result) = PrescribedWidth(last.naive)


\* The operators that construction replaces.
ReplacedOps == {"NE", "UGT", "UGE", "SGT", "SGE"}

\* A node of the expression is a binary expression of one of the operators.
RECURSIVE HasOp(_, _)
HasOp(expr, ops) ==
    CASE expr.kind = "binary" ->
            expr.Op \in ops \/ HasOp(expr.LHS, ops) \/ HasOp(expr.RHS, ops)
      [] expr.kind = "concat" -> HasOp(expr.MSB, ops) \/ HasOp(expr.LSB, ops)
      [] expr.kind \in {"extract", "not", "notopt"} -> HasOp(expr.Expr, ops)
      [] expr.kind = "cast" -> HasOp(expr.Src, ops)
      [] expr.kind = "select" -> HasOp(expr.Index, ops)
      [] OTHER -> FALSE

\* What NewBinaryExpr(op, a, b) is to construct as.
CanonicalForm(op, a, b) ==
    CASE op = "UGT" -> NewBinaryExpr(mem, "ULT", b, a)
      [] op = "UGE" -> NewBinaryExpr(mem, "ULE", b, a)
      [] op = "SGT" -> NewBinaryExpr(mem, "SLT", b, a)
      [] op = "SGE" -> NewBinaryExpr(mem, "SLE", b, a)
      [] op = "NE" ->
            NewBinaryExpr(mem, "EQ", NewConstantExpr(0, WidthBool),
                          NewBinaryExpr(mem, "EQ", a, b))

\* C29: NewBinaryExpr constructs UGT(a,b) as ULT(b,a), UGE(a,b) as ULE(b,a),
\* SGT(a,b) as SLT(b,a), SGE(a,b) as SLE(b,a) and NE(a,b) as EQ(0, EQ(a,b)),
\* and no expression it returns has the operator NE, UGT, UGE, SGT or SGE.
C29_CompareCanonicalForm ==
    last.op = "NewBinaryExpr" =>
        /\ last.naive.Op \in ReplacedOps =>
              last.result = CanonicalForm(last.naive.Op, last.naive.LHS, last.naive.RHS)
        /\ ~HasOp(last.result, ReplacedOps)

\* UGT of two symbolic bytes has been constructed, as a ULT node with the
\* operands in the other order.
C29_Witness ==
    /\ last.op = "NewBinaryExpr"
    /\ last.naive.Op = "UGT"
    /\ ~IsConstantExpr(last.naive.LHS)
    /\ ~IsConstantExpr(last.naive.RHS)
    /\ IsBinaryOp(last.result, "ULT")
    /\ last.result.LHS = last.naive.RHS
    /\ last.result.RHS = last.naive.LHS


\* The last call executed glee.Assert on a condition that is the constant
\* false.
AssertedFalse ==
    /\ last.state # 0
    /\ last.executed > 0
    /\ InstrOf(last.pre).op = "Call"
    /\ InstrOf(last.pre).path = GleePath
    /\ InstrOf(last.pre).fn = "Assert"
    /\ IsConstantFalse(OperandValue(Frame(last.pre), InstrOf(last.pre).args[1]))

\* C30: AddConstraint of a constant false aborts (a Go panic) and appends
\* nothing, and the constraints of no state hold a constant false.
C30_FalseConstraintFatal ==
    /\ AssertedFalse =>
          /\ last.err = GoPanic
          /\ crashed
          /\ states[last.state].constraints = last.pre.constraints
    /\ \A s \in 1..Len(states) :
          \A i \in 1..Len(states[s].constraints) :
              ~IsConstantFalse(states[s].constraints[i])

C30_Witness == AssertedFalse /\ crashed



\* No entry of the constraint list of any state is a conjunction.
NoTopLevelAnd ==
    \A s \in 1..Len(states) :
        \A i \in 1..Len(states[s].constraints) :
            ~IsBinaryOp(states[s].constraints[i], "AND")

\* The constraints that child has more than the state that forked it.
Appended(child) ==
    SubSeq(states[child].constraints, Len(LastState.constraints) + 1,
           Len(states[child].constraints))

\* The child that an If gave one side got the parent's constraints and then
\* the entries of cs, in that order and one entry each.
SplitInto(child, cs) ==
    child # 0 =>
       /\ Len(states[child].constraints) = Len(LastState.constraints) + Len(cs)
       /\ SubSeq(states[child].constraints, 1, Len(LastState.constraints))
             = LastState.constraints
       /\ \A i \in 1..Len(cs) : Appended(child)[i] = cs[i]

\* C31: a conjunction added as a constraint is split: the conjuncts of its
\* left operand and then those of its right operand are appended as
\* separate entries, and no entry of the constraint list of any state is
\* itself a conjunction.
C31_ConjunctionSplit ==
    /\ NoTopLevelAnd
    /\ last.ifrec.state # 0 =>
          /\ SplitInto(last.ifrec.trueChild, Conjuncts(last.ifrec.cond))
          /\ SplitInto(last.ifrec.falseChild, Conjuncts(NewNotExpr(last.ifrec.cond)))

\* An If on a conjunction of two different conditions has forked a child for
\* its true side, which got the two conditions as two constraints.
C31_Witness ==
    /\ last.ifrec.state # 0
    /\ last.ifrec.trueChild # 0
    /\ IsBinaryOp(last.ifrec.cond, "AND")
    /\ last.ifrec.cond.LHS # last.ifrec.cond.RHS
    /\ Appended(last.ifrec.trueChild) = << last.ifrec.cond.LHS, last.ifrec.cond.RHS >>


\* The kinds of instruction that the executor does not support.
UnsupportedOps == {"Defer", "Go", "MakeChan", "MakeMap", "TypeAssert"}

\* The instruction that the last call executed last is of an unsupported
\* kind.
UnsupportedInstr ==
    /\ last.state # 0
    /\ last.executed > 0
    /\ \/ InstrOf(last.pre).op \in UnsupportedOps
       \/ InstrOf(last.pre).op = "BinOp" /\ InstrOf(last.pre).typ = "float64"

\* C32: when the instruction reached by the selected state is of an
\* unsupported kind the call returns an error that is not a Go panic, the
\* state gets no child, and its stack with its bindings, its heap, its
\* constraints and its status are as they were when the instruction was
\* reached.
C32_UnsupportedLeavesState ==
    UnsupportedInstr =>
       /\ last.err # ""
       /\ last.err # GoPanic
       /\ ~crashed
       /\ LastState.children = last.pre.children
       /\ LastState.stack = last.pre.stack
       /\ LastState.heap = last.pre.heap
       /\ LastState.constraints = last.pre.constraints
       /\ LastState.status = last.pre.status

\* A call met a make(chan) in a state that holds a binding and constraints.
C32_Witness ==
    /\ UnsupportedInstr
    /\ InstrOf(last.pre).op = "MakeChan"
    /\ Len(LastState.constraints) > 1
    /\ last.err = "glee.Executor: channels are not supported"


\* A bound of a Slice instruction that is a constant above the length of the
\* sliced string x.
BoundAbove(value, x) ==
    /\ value.k = "int"
    /\ x.kind = "array"
    /\ value.v > mem.arrays[x.ref].Size

\* The instruction that the last call executed last is a Slice of a string
\* with a constant bound above the length of the string.
SlicedOutOfRange ==
    /\ last.state # 0
    /\ last.executed > 0
    /\ InstrOf(last.pre).op = "Slice"
    /\ \/ BoundAbove(InstrOf(last.pre).Low, Lookup(Frame(last.pre), InstrOf(last.pre).X.n))
       \/ BoundAbove(InstrOf(last.pre).High, Lookup(Frame(last.pre), InstrOf(last.pre).X.n))

\* C33: slicing a string with a constant bound above its length makes the
\* state panicked with reason "slice bounds out of range"; the call returns
\* no error, no constraint is added, the Slice instruction gets no binding
\* and the state gets no child.
C33_SliceOutOfRangePanics ==
    SlicedOutOfRange =>
       /\ last.err = ""
       /\ LastState.status = ExecutionStatusPanicked
       /\ LastState.reason = "slice bounds out of range"
       /\ LastState.constraints = last.pre.constraints
       /\ Lookup(Frame(LastState), InstrOf(last.pre).name) = NilExpr
       /\ Frame(LastState).bindings = Frame(last.pre).bindings
       /\ LastState.children = << >>

\* s[3:] of a string of length 2 has been executed after the slice s[1:2],
\* which is bound.
C33_Witness ==
    /\ SlicedOutOfRange
    /\ InstrOf(last.pre).Low.k = "int"
    /\ Lookup(Frame(LastState), "t1") # NilExpr
    /\ LastState.status = ExecutionStatusPanicked


\* C34: the constraints of every state are satisfiable after every call, so
\* that Values() of a state returned by ExecuteNextState does not report
\* "unsatisfiable".
C34_ConstraintsSatisfiable ==
    \A s \in 1..Len(states) : Solve(mem, states[s].constraints)

\* The states that an If, a Call or a Return forked off a state with
\* satisfiable constraints have satisfiable constraints when they are created.
ForkedSatisfiable ==
    last.state # 0 =>
       \A i \in 1..Len(NewChildren) :
           Solve(mem, LastState.constraints) => Solve(mem, states[NewChildren[i]].constraints)


\* C35: a call that returns the error of a solver query made by an If has
\* created no child for either side of that If.
C35_SolverErrorNoChild ==
    (/\ last.state # 0
     /\ last.err = ErrSolverTimeout
     /\ last.ifrec.state # 0)
    => /\ NewChildren = << >>
       /\ last.ifrec.falseChild = 0
       /\ last.ifrec.trueChild = 0

\* When the query for the false side of an If fails, the call returns the
\* error and no child has been created.
FirstQueryErrorNoChild ==
    (/\ last.state # 0
     /\ last.ifrec.state # 0
     /\ last.ifrec.falseSat = "error")
    => /\ last.err = ErrSolverTimeout
       /\ NewChildren = << >>


\* C36: every call of ExecuteNextState returns: a call that is in its loop
\* leaves it after finitely many instructions.
C36_CallReturns == last.pending ~> ~last.pending

\* A call on a state that is not inside the loop of ProgLoop returns.
InLoop ==
    IF last.state = 0 THEN FALSE
    ELSE IF ~HasFrame(states[last.state]) THEN FALSE
    ELSE Programs[prog] = ProgLoop /\ Frame(states[last.state]).block = 2

CallOutsideLoopReturns == (last.pending /\ ~InLoop) ~> ~last.pending


\* The last call found no state to select.
Exhausted == last.state = 0 /\ last.err = ErrNoStateAvailable

\* C37: under a MultiSearcher a call reports ErrNoStateAvailable only when
\* every sub-searcher is empty, and every state has then been selected by
\* a call.
C37_MultiExhaustedWhenAllEmpty ==
    (searcher.kind = "multi" /\ Exhausted)
    => /\ \A i \in 1..Len(searcher.searchers) : searcher.searchers[i].states = << >>
       /\ ran = 1..Len(states)

\* A MultiSearcher has reported exhaustion after calls ran the root and the
\* states it forked, each sub-searcher having yielded states.
C37_Witness ==
    /\ searcher.kind = "multi"
    /\ Exhausted
    /\ Len(states) > 2
    /\ \A i \in 1..Len(searcher.searchers) : searcher.searchers[i].states = << >>


\* The base addresses of the entries of the root state's heap whose range
\* [base, base + size) holds the address a.
Containing(a) ==
    { k \in DOMAIN states[1].heap : k <= a /\ a < k + mem.arrays[states[1].heap[k]].Size }

\* C38: the lookup of an address returns the heap entry whose range
\* [base, base + size) contains the address when there is one, with its
\* base, and no entry otherwise.
C38_LookupContaining ==
    last.op = "find" =>
       IF Containing(last.addr) = {}
       THEN last.array = 0 /\ last.base = NilExpr
       ELSE /\ last.base.kind = "const"
            /\ last.base.Value \in Containing(last.addr)
            /\ last.array = states[1].heap[last.base.Value]

\* An address inside the second of three arrays, not its base, has been
\* looked up and found.
C38_Witness ==
    /\ last.op = "find"
    /\ last.array # 0
    /\ last.base.Value < last.addr
    /\ \E k \in DOMAIN states[1].heap : k < last.base.Value
    /\ \E k \in DOMAIN states[1].heap : k > last.addr

\* An address that lies in no array, between two arrays, has been looked up.
LookupMissed ==
    /\ last.op = "find"
    /\ last.array = 0
    /\ \E k \in DOMAIN states[1].heap : k < last.addr
    /\ \E k \in DOMAIN states[1].heap : k > last.addr


\* The call is NewExtractExpr of a concatenation with a window, within the
\* concatenation, that holds bits of both of its parts.
Straddles ==
    IF last.op \notin {"NewExtractExpr", "panic"} THEN FALSE
    ELSE /\ last.naive.kind = "extract"
         /\ last.naive.Expr.kind = "concat"
         /\ last.naive.Offset < ExprWidth(last.naive.Expr.LSB)
         /\ last.naive.Offset + last.naive.Width > ExprWidth(last.naive.Expr.LSB)
         /\ last.naive.Offset + last.naive.Width <= ExprWidth(last.naive.Expr)
         /\ last.naive.Width < ExprWidth(last.naive.Expr)

\* C39: NewExtractExpr of a concatenation with a window that lies across
\* its two parts returns an expression of the width of the window whose
\* value is the bits of the window, whatever the widths of the parts.
C39_StraddleExtract ==
    Straddles =>
       /\ last.op = "NewExtractExpr"
       /\ ExprWidth(last.result) = last.naive.Width
       /\ SameValue(last.result, last.naive)

\* The same for a concatenation whose parts have one width.
EvenStraddleExtract ==
    (Straddles /\ ExprWidth(last.naive.Expr.MSB) = ExprWidth(last.naive.Expr.LSB))
    => /\ last.op = "NewExtractExpr"
       /\ ExprWidth(last.result) = last.naive.Width
       /\ SameValue(last.result, last.naive)

\* last records a call of one of the four constructors, returned or
\* panicked; last.naive is the call.
Called ==
    /\ last.op \in {"NewBinaryExpr", "NewConcatExpr", "NewExtractExpr", "NewCastExpr",
                    "panic"}
    /\ last.naive.kind \in {"binary", "concat", "extract", "cast"}

\* The expression that the constructors build for a call.
Built(call) ==
    CASE call.kind = "binary" -> NewBinaryExpr(mem, call.Op, call.LHS, call.RHS)
      [] call.kind = "concat" -> NewConcatExpr(call.MSB, call.LSB)
      [] call.kind = "extract" -> NewExtractExpr(call.Expr, call.Offset, call.Width)
      [] call.kind = "cast" -> NewCastExpr(call.Src, call.Width, call.Signed)

\* C40: every call of NewBinaryExpr, NewConcatExpr, NewExtractExpr or
\* NewCastExpr on finite operands terminates after finitely many nested
\* constructor calls: it makes at most MaxCalls calls, itself included, each
\* call nested in it makes strictly fewer calls than it does, and a call that
\* returns, returns what the last of its nested calls returns.
C40_ConstructorsTerminate ==
    Called =>
        LET nested == NestedCalls(mem, last.naive)
        IN  /\ CallCount(mem, last.naive) <= MaxCalls
            /\ \A i \in 1..Len(nested) :
                  CallCount(mem, nested[i]) < CallCount(mem, last.naive)
            /\ nested # << >> /\ last.op # "panic" =>
                  Built(nested[Len(nested)]) = last.result

\* A subtraction that is rewritten through six nested calls or more.
C40_Witness ==
    /\ last.op = "NewBinaryExpr"
    /\ last.naive.Op = "SUB"
    /\ CallCount(mem, last.naive) >= 6
    /\ CallCount(mem, last.naive) <= MaxCalls

====
